---- MODULE Spec2Model ----
(***************************************************************************)
(* A model of src/src/px.js: DeferredPromise, PublishedPromise and the     *)
(* Promise extensions, run on a model of the host's Promise primitive      *)
(* (promise records, the microtask queue, the timer list).                 *)
(*                                                                         *)
(* A closure of the source is a record [fn, a, b, f, v]: fn names the      *)
(* function, a/b/v hold what it captured, f a function it captured.  A     *)
(* captured mutable variable                                               *)
(* (let tries, let success) and the invocation count of a function the     *)
(* caller passes in live in `cells`.                                       *)
(***************************************************************************)
EXTENDS Integers, Sequences, FiniteSets, TLC

VARIABLES
    heap,     \* the promises: state, value, resolved flag, reactions
    jobs,     \* the microtask queue
    timers,   \* the pending setTimeout calls, in registration order
    now,      \* the clock the timers are due against
    cells,    \* captured mutable variables and invocation counters
    defs,     \* the DeferredPromise objects: their _supplier
    pubs,     \* the PublishedPromise objects: their _promise
    log,      \* what the caller did and what the caller's functions saw
    running   \* whether the caller's synchronous code is on the stack

state == <<heap, jobs, timers, now, cells, defs, pubs, log>>
vars == <<heap, jobs, timers, now, cells, defs, pubs, log, running>>

(***************************************************************************)
(* Bounds of the model.                                                    *)
(***************************************************************************)
MaxVal == 2
MaxDelay == 2
MaxAttach == 2
MaxFail == 2
MaxRetry == 2
MaxAttempts == 4
MaxSettle == 2
MaxCalls == 1

(***************************************************************************)
(* Values.  Every JavaScript value of the model is a record [k, n].        *)
(***************************************************************************)
Num(n) == [k |-> "int", n |-> n]
Bool(b) == [k |-> "bool", n |-> IF b THEN 1 ELSE 0]
Err(n) == [k |-> "error", n |-> n]
PRef(p) == [k |-> "promise", n |-> p]
DRef(d) == [k |-> "deferred", n |-> d]
PubRef(d) == [k |-> "published", n |-> d]
Undefined == [k |-> "undefined", n |-> 0]
TypeError == [k |-> "TypeError", n |-> 0]
TimeoutException == [k |-> "Error: Promise TimeoutException", n |-> 0]

Vals == {Num(n) : n \in 1..MaxVal}
Delays == 0..MaxDelay

StrictEquals(x, y) == x.k = y.k /\ x.n = y.n
IsThenable(x) == x.k \in {"promise", "deferred", "published"}

Clo(fn, a, b, f, v) == [fn |-> fn, a |-> a, b |-> b, f |-> f, v |-> v]
NoFn == Clo("undefined", 0, 0, Undefined, Undefined)
\* A log entry: ev of object or function id; n a count or a promise; v, w
\* the arguments; r the result.
Event(ev, id, n, v, w, r) == [ev |-> ev, id |-> id, n |-> n, v |-> v, w |-> w, r |-> r]

\* What a predicate of the caller returns when a job calls it.
NoChoice == Undefined
BoolChoices == {Bool(b) : b \in BOOLEAN}

(***************************************************************************)
(* The machine: the variables as one record, threaded through the calls of *)
(* a handler; ret and thrown are the completion of the last call.          *)
(***************************************************************************)
M == [heap |-> heap, jobs |-> jobs, timers |-> timers, now |-> now,
      cells |-> cells, defs |-> defs, pubs |-> pubs, log |-> log,
      ret |-> Undefined, thrown |-> FALSE]

Commit(m) ==
    /\ heap' = m.heap
    /\ jobs' = m.jobs
    /\ timers' = m.timers
    /\ now' = m.now
    /\ cells' = m.cells
    /\ defs' = m.defs
    /\ pubs' = m.pubs
    /\ log' = m.log
    /\ UNCHANGED running

Return(m, v) == [m EXCEPT !.ret = v, !.thrown = FALSE]
Throw(m, v) == [m EXCEPT !.ret = v, !.thrown = TRUE]
Logged(m, e) == [m EXCEPT !.log = Append(@, e)]
NewCell(m) == [m EXCEPT !.cells = Append(@, 0)]
LastCell(m) == Len(m.cells)

(***************************************************************************)
(* The host's Promise primitive.                                           *)
(***************************************************************************)
PendingPromise ==
    [state |-> "pending", value |-> Undefined, resolved |-> FALSE,
     handled |-> FALSE, reactions |-> <<>>]

\* A new pending promise; ret is its reference.
NewPromiseCapability(m) ==
    Return([m EXCEPT !.heap = Append(@, PendingPromise)], PRef(Len(m.heap) + 1))

ReactionJob(r, st, v) ==
    [type |-> "reaction",
     handler |-> IF st = "fulfilled" THEN r.onFulfilled ELSE r.onRejected,
     child |-> r.child, arg |-> v]

ThenableJob(p, thenable) ==
    [type |-> "thenable", handler |-> NoFn, child |-> p, arg |-> thenable]

\* FulfillPromise / RejectPromise: the one transition out of pending, which
\* queues a job per registered reaction, in registration order.
SettlePromise(m, p, st, v) ==
    IF m.heap[p].state # "pending" THEN m
    ELSE LET rs == m.heap[p].reactions IN
         [m EXCEPT !.heap[p] = [@ EXCEPT !.state = st, !.value = v,
                                         !.reactions = <<>>],
                   !.jobs = @ \o [i \in 1..Len(rs) |-> ReactionJob(rs[i], st, v)]]

\* The resolution procedure: a thenable is followed in a later job.
ResolvePromise(m, p, v) ==
    IF IsThenable(v)
    THEN IF v = PRef(p)
         THEN SettlePromise(m, p, "rejected", TypeError)
         ELSE [m EXCEPT !.jobs = Append(@, ThenableJob(p, v))]
    ELSE SettlePromise(m, p, "fulfilled", v)

\* The resolve and reject functions handed to an executor: only the first
\* call of either has an effect.
ResolveFunction(m, p, v) ==
    IF m.heap[p].resolved THEN m
    ELSE ResolvePromise([m EXCEPT !.heap[p].resolved = TRUE], p, v)

RejectFunction(m, p, v) ==
    IF m.heap[p].resolved THEN m
    ELSE SettlePromise([m EXCEPT !.heap[p].resolved = TRUE], p, "rejected", v)

\* p.then(onFulfilled, onRejected); ret is the derived promise.
PromiseThen(m, p, onFulfilled, onRejected) ==
    LET m1 == NewPromiseCapability(m)
        child == m1.ret.n
        r == [onFulfilled |-> IF onFulfilled.fn = "undefined"
                              THEN Clo("identity", 0, 0, NoFn, Undefined)
                              ELSE onFulfilled,
              onRejected |-> IF onRejected.fn = "undefined"
                             THEN Clo("thrower", 0, 0, NoFn, Undefined)
                             ELSE onRejected,
              child |-> child]
        st == m.heap[p].state
        m2 == [m1 EXCEPT !.heap[p].handled = TRUE]
    IN  Return(IF st = "pending"
               THEN [m2 EXCEPT !.heap[p].reactions = Append(@, r)]
               ELSE [m2 EXCEPT !.jobs = Append(@, ReactionJob(r, st, m.heap[p].value))],
               PRef(child))

\* Promise.resolve(x): a promise is returned as it is.
PromiseResolve(m, x) ==
    IF x.k = "promise" THEN Return(m, x)
    ELSE LET m1 == NewPromiseCapability(m)
         IN  Return(ResolveFunction(m1, m1.ret.n, x), m1.ret)

\* Promise.reject(x)
PromiseReject(m, x) ==
    LET m1 == NewPromiseCapability(m)
    IN  Return(RejectFunction(m1, m1.ret.n, x), m1.ret)

\* setTimeout(cb, amount, arg)
SetTimeout(m, cb, amount, arg) ==
    [m EXCEPT !.timers = Append(@, [due |-> m.now + amount, cb |-> cb, arg |-> arg])]

(***************************************************************************)
(* The functions the caller passes in.  Each has a cell counting its       *)
(* invocations (closure field a) and logs what it was called with.         *)
(***************************************************************************)
Invoked(m, f, e) == Logged([m EXCEPT !.cells[f.a] = @ + 1], e)

\* A Producer (PromiseExecutor) of the caller, invoked as fn(res, rej) for
\* promise p.  "producer": fails with Err(i) on its i-th invocation for
\* i <= f.b and succeeds with f.v afterwards.  "producer_throw": throws f.v.
\* "producer_later", "producer_later_reject": resolves, rejects with f.v by a
\* timer of f.b.  "producer_never": calls neither res nor rej.
CallProducer(m, f, p) ==
    LET m1 == Invoked(m, f, Event("producer", f.a, p, Undefined, Undefined, Undefined))
        i == m1.cells[f.a]
    IN  CASE f.fn = "producer" ->
               IF i <= f.b
               THEN Return(RejectFunction(m1, p, Err(i)), Undefined)
               ELSE Return(ResolveFunction(m1, p, f.v), Undefined)
          [] f.fn = "producer_throw" -> Throw(m1, f.v)
          [] f.fn = "producer_later" ->
               Return(SetTimeout(m1, Clo("resolveFunction", p, 0, NoFn, Undefined),
                                 f.b, f.v), Undefined)
          [] f.fn = "producer_later_reject" ->
               Return(SetTimeout(m1, Clo("rejectFunction", p, 0, NoFn, Undefined),
                                 f.b, f.v), Undefined)
          [] OTHER -> Return(m1, Undefined)

\* The Producers the caller may pass.
Producers(cell) ==
    {Clo("producer", cell, k, NoFn, v) : k \in 0..MaxFail, v \in Vals}
      \cup {Clo("producer_throw", cell, 0, NoFn, Err(0))}

\* A function of no arguments of the caller (VanillaExecutor, onFinally).
\* f.fn is what it does: "return" f.v, "throw" f.v, or return a promise that
\* is "resolved" or "rejected" with f.v already, or will be by a timer of f.b
\* ("later", "laterRejected").  ret is what it returned, thrown whether it
\* threw.
CallCallable(m, f) ==
    LET m1 == Invoked(m, f, Event("callable", f.a, m.cells[f.a] + 1, Undefined,
                                  Undefined, f.v))
    IN  CASE f.fn = "throw" -> Throw(m1, f.v)
          [] f.fn = "resolved" -> PromiseResolve(m1, f.v)
          [] f.fn = "rejected" -> PromiseReject(m1, f.v)
          [] f.fn = "later" ->
               LET m2 == NewPromiseCapability(m1)
               IN  Return(SetTimeout(m2, Clo("resolveFunction", m2.ret.n, 0, NoFn, Undefined),
                                     f.b, f.v), m2.ret)
          [] f.fn = "laterRejected" ->
               LET m2 == NewPromiseCapability(m1)
               IN  Return(SetTimeout(m2, Clo("rejectFunction", m2.ret.n, 0, NoFn, Undefined),
                                     f.b, f.v), m2.ret)
          [] OTHER -> Return(m1, f.v)

\* The functions of no arguments the caller may pass.
Callables(cell) ==
    {Clo("return", cell, 0, NoFn, v) : v \in Vals \cup {Undefined}}
      \cup {Clo("throw", cell, 0, NoFn, Err(0))}
      \cup {Clo("resolved", cell, 0, NoFn, v) : v \in Vals}
      \cup {Clo("rejected", cell, 0, NoFn, Err(0))}
      \cup {Clo("later", cell, t, NoFn, v) : v \in Vals, t \in Delays}
      \cup {Clo("laterRejected", cell, t, NoFn, Err(0)) : t \in Delays}

\* A predicate of the caller (RetryTester, ContainsTester, PromiseTester),
\* called with (x, y); the boolean it returns is the choice c.
CallPredicate(m, f, x, y, c) ==
    Return(Invoked(m, f, Event("predicate", f.a, m.cells[f.a] + 1, x, y, c)), c)

\* A continuation of the caller (OnResolve, OnReject), called with x.
CallContinuation(m, f, x) ==
    Return(Invoked(m, f, Event(f.fn, f.a, m.cells[f.a] + 1, x, Undefined, Undefined)), Undefined)

(***************************************************************************)
(* DeferredPromise, px.js lines 79-209.                                    *)
(***************************************************************************)
\* res => res(value)
DeferredPromise_resolve_executor(m, s, p) ==
    Return(ResolveFunction(
               Invoked(m, s, Event("producer", s.a, p, Undefined, Undefined, Undefined)),
               p, s.v), Undefined)

\* (res, rej) => rej(value)
DeferredPromise_reject_executor(m, s, p) ==
    Return(RejectFunction(
               Invoked(m, s, Event("producer", s.a, p, Undefined, Undefined, Undefined)),
               p, s.v), Undefined)

\* the executor of PublishedPromise, had it not called fn
PublishedPromise_executor_without_fn(m, s, p) ==
    Return([m EXCEPT !.pubs[s.a].resolve = p, !.pubs[s.a].reject = p], Undefined)

\* (res, rej) => { this._resolve = res; this._reject = rej;
\*                 if(typeof fn === 'function'){ fn(res, rej); } }
PublishedPromise_executor(m, s, p) ==
    LET m1 == [m EXCEPT !.pubs[s.a].resolve = p, !.pubs[s.a].reject = p]
    IN  IF s.f.fn # "undefined" THEN CallProducer(m1, s.f, p)
        ELSE Return(m1, Undefined)

\* the executor of timeout, had it set its timer to 0
timeout_executor_immediate(m, s, p) ==
    Return(SetTimeout(m, Clo("timeout_callback", s.a, p, NoFn, s.v), 0, Undefined),
           Undefined)

\* (res, rej) => { setTimeout(() => { if(success){ res(this); } else {
\*     rej(new Error('Promise TimeoutException')); } }, amount); }
\* s.a is the cell of success, s.b amount, s.v this.
timeout_executor(m, s, p) ==
    Return(SetTimeout(m, Clo("timeout_callback", s.a, p, NoFn, s.v), s.b, Undefined),
           Undefined)

\* res => { setTimeout(res, amount, value); } of Promise.delayedResolve
delayedResolve_executor(m, s, p) ==
    Return(SetTimeout(m, Clo("resolveFunction", p, 0, NoFn, Undefined), s.b, s.v),
           Undefined)

\* (res, rej) => { setTimeout(rej, amount, value); } of Promise.delayedReject
delayedReject_executor(m, s, p) ==
    Return(SetTimeout(m, Clo("rejectFunction", p, 0, NoFn, Undefined), s.b, s.v),
           Undefined)

\* the supplier of delay, had it called this._supplier at once
delay_supplier_eager(m, s, p) ==
    LET m1 == Invoked(m, s, Event("delay_supplier", s.a, p, Num(m.now), Undefined,
                                  Undefined))
    IN  CallProducer(m1, s.f, p)

\* (res, rej) => { setTimeout(() => { this._supplier(res, rej); }, amount); }
\* of DeferredPromise.delay: s.f is this._supplier, s.b amount; s.a counts the
\* timers started.
delay_supplier(m, s, p) ==
    LET m1 == Invoked(m, s, Event("delay_supplier", s.a, p, Num(m.now), Undefined,
                                  Undefined))
    IN  Return(SetTimeout(m1, Clo("delay_callback", p, 0, s.f, Undefined), s.b,
                          Undefined), Undefined)

\* The call executor(res, rej) the Promise constructor makes.
CallExecutor(m, s, p) ==
    CASE s.fn = "res_value" -> DeferredPromise_resolve_executor(m, s, p)
      [] s.fn = "rej_value" -> DeferredPromise_reject_executor(m, s, p)
      [] s.fn = "published_executor" -> PublishedPromise_executor(m, s, p)
      [] s.fn = "timeout_executor" -> timeout_executor(m, s, p)
      [] s.fn = "delayedResolve_executor" -> delayedResolve_executor(m, s, p)
      [] s.fn = "delayedReject_executor" -> delayedReject_executor(m, s, p)
      [] s.fn = "delay_supplier" -> delay_supplier(m, s, p)
      [] OTHER -> CallProducer(m, s, p)

\* new Promise(executor): the executor runs at once, and what it throws
\* rejects the promise.
NewPromise(m, executor) ==
    LET m1 == NewPromiseCapability(m)
        p == m1.ret.n
        r == CallExecutor(m1, executor, p)
    IN  Return(IF r.thrown THEN RejectFunction(r, p, r.ret) ELSE r, PRef(p))

DeferredPromise_constructor(m, fn) ==
    Return([m EXCEPT !.defs = Append(@, [supplier |-> fn])], DRef(Len(m.defs) + 1))

DeferredPromise_resolve(m, value) ==
    LET m1 == NewCell(m)
    IN  DeferredPromise_constructor(m1, Clo("res_value", LastCell(m1), 0, NoFn, value))

DeferredPromise_reject(m, value) ==
    LET m1 == NewCell(m)
    IN  DeferredPromise_constructor(m1, Clo("rej_value", LastCell(m1), 0, NoFn, value))

DeferredPromise_fromCallable(m, executor) ==
    LET r == CallCallable(m, executor)
    IN  IF r.thrown THEN DeferredPromise_reject(r, r.ret)
        ELSE DeferredPromise_resolve(r, r.ret)

Promise_fromCallableDeferred(m, executor) ==
    DeferredPromise_fromCallable(m, executor)

\* Promise.prototype.finally, px.js lines 477-485.
Promise_prototype_finally(m, p, onFinally) ==
    PromiseThen(m, p,
                Clo("finally_onFulfilled", 0, 0, onFinally, Undefined),
                Clo("finally_onRejected", 0, 0, onFinally, Undefined))

\* The promise an earlier attachment made of d's supplier, 0 if there is none.
MemoizedPromise(m, d) ==
    LET made == {i \in 1..Len(m.log) : m.log[i].ev = "producer"
                                         /\ m.log[i].id = m.defs[d].supplier.a}
    IN  IF made = {} THEN 0 ELSE m.log[CHOOSE i \in made : TRUE].n

\* then, had it kept the first promise it made instead of making a new one
DeferredPromise_then_memoized(m, d, res, rej) ==
    IF MemoizedPromise(m, d) = 0
    THEN LET m1 == NewPromise(m, m.defs[d].supplier)
         IN  PromiseThen(m1, m1.ret.n, res, rej)
    ELSE PromiseThen(m, MemoizedPromise(m, d), res, rej)

DeferredPromise_then(m, d, res, rej) ==
    LET m1 == NewPromise(m, m.defs[d].supplier)
    IN  PromiseThen(m1, m1.ret.n, res, rej)

DeferredPromise_catch(m, d, rej) ==
    LET m1 == NewPromise(m, m.defs[d].supplier)
    IN  PromiseThen(m1, m1.ret.n, NoFn, rej)

DeferredPromise_finally(m, d, fin) ==
    LET m1 == NewPromise(m, m.defs[d].supplier)
    IN  Promise_prototype_finally(m1, m1.ret.n, fin)

DeferredPromise_toPromise(m, d) ==
    NewPromise(m, m.defs[d].supplier)

DeferredPromise_delay(m, d, amount) ==
    LET m1 == NewCell(m)
    IN  DeferredPromise_constructor(
            m1, Clo("delay_supplier", LastCell(m1), amount, m.defs[d].supplier, Undefined))

(***************************************************************************)
(* PublishedPromise, px.js lines 218-290.  _resolve and _reject are the    *)
(* resolve and reject functions of the promise whose index they hold.      *)
(***************************************************************************)
PublishedPromise_constructor(m, fn) ==
    LET id == Len(m.pubs) + 1
        m1 == [m EXCEPT !.pubs = Append(@, [promise |-> 0, resolve |-> 0, reject |-> 0])]
        r == NewPromise(m1, Clo("published_executor", id, 0, fn, Undefined))
    IN  Return([r EXCEPT !.pubs[id].promise = r.ret.n], PubRef(id))

\* Promise.publish(fn), px.js lines 425-428
Promise_publish(m, fn) == PublishedPromise_constructor(m, fn)

\* resolve, had it put a new resolved promise in place of _promise
PublishedPromise_resolve_replacing(m, pub, value) ==
    LET r == PromiseResolve(m, value)
    IN  Return([r EXCEPT !.pubs[pub].promise = r.ret.n], Undefined)

PublishedPromise_resolve(m, pub, value) ==
    Return(ResolveFunction(m, m.pubs[pub].resolve, value), Undefined)

PublishedPromise_reject(m, pub, value) ==
    Return(RejectFunction(m, m.pubs[pub].reject, value), Undefined)

PublishedPromise_then(m, pub, res, rej) ==
    PromiseThen(m, m.pubs[pub].promise, res, rej)

\* catch, had it attached rej as the reaction to a success
PublishedPromise_catch_as_then(m, pub, rej) ==
    PromiseThen(m, m.pubs[pub].promise, rej, NoFn)

PublishedPromise_catch(m, pub, rej) ==
    PromiseThen(m, m.pubs[pub].promise, NoFn, rej)

PublishedPromise_finally(m, pub, fin) ==
    Promise_prototype_finally(m, m.pubs[pub].promise, fin)

PublishedPromise_toPromise(m, pub) == Return(m, PRef(m.pubs[pub].promise))

\* resub of retry(fn), px.js lines 170-173
retry_resub_tester(m, d, tries, fn) ==
    LET m1 == NewPromise(m, m.defs[d].supplier)
    IN  PromiseThen(m1, m1.ret.n,
                    Clo("retry_onFulfilled", 0, 0, NoFn, Undefined),
                    Clo("retry_onRejected_tester", tries, d, fn, Undefined))

\* resub of retry(), had it given then no reaction to a failure
retry_resub_passing(m, d) ==
    LET m1 == NewPromise(m, m.defs[d].supplier)
    IN  PromiseThen(m1, m1.ret.n, Clo("retry_onFulfilled", 0, 0, NoFn, Undefined), NoFn)

\* resub of retry(), px.js lines 177-180
retry_resub(m, d) ==
    LET m1 == NewPromise(m, m.defs[d].supplier)
    IN  PromiseThen(m1, m1.ret.n,
                    Clo("retry_onFulfilled", 0, 0, NoFn, Undefined),
                    Clo("retry_onRejected", 0, d, NoFn, Undefined))

\* retry, had it kept tries with the DeferredPromise: a later retry(fn) goes
\* on counting in the variable of the first.
DeferredPromise_retry_shared_tries(m, d, fn) ==
    LET prior == {i \in 1..Len(m.log) : /\ m.log[i].ev = "retry"
                                        /\ m.log[i].id = d
                                        /\ m.log[i].v # Undefined}
    IN  IF fn.fn # "undefined"
        THEN IF prior # {}
             THEN retry_resub_tester(m, d, m.log[CHOOSE i \in prior : TRUE].v.n + 1, fn)
             ELSE LET m1 == NewCell(m)
                  IN  retry_resub_tester(m1, d, LastCell(m1), fn)
        ELSE retry_resub(m, d)

DeferredPromise_retry(m, d, fn) ==
    IF fn.fn # "undefined"
    THEN LET m1 == NewCell(m)
         IN  retry_resub_tester(m1, d, LastCell(m1), fn)
    ELSE retry_resub(m, d)

(***************************************************************************)
(* The extensions of Promise, px.js lines 314-606.                         *)
(***************************************************************************)
Promise_prototype_contains(m, p, value, bipredicate) ==
    IF bipredicate.fn # "undefined"
    THEN PromiseThen(m, p, Clo("contains_bipredicate", 0, 0, bipredicate, value), NoFn)
    ELSE PromiseThen(m, p, Clo("contains_equals", 0, 0, NoFn, value), NoFn)

Promise_prototype_timeout(m, p, amount) ==
    LET m1 == NewCell(m)
        success == LastCell(m1)
        m2 == PromiseThen(m1, p, Clo("timeout_observer", success, 0, NoFn, Undefined),
                          NoFn)
    IN  NewPromise(m2, Clo("timeout_executor", success, amount, NoFn, PRef(p)))

Promise_delayedResolve(m, value, amount) ==
    NewPromise(m, Clo("delayedResolve_executor", 0, amount, NoFn, value))

Promise_delayedReject(m, value, amount) ==
    NewPromise(m, Clo("delayedReject_executor", 0, amount, NoFn, value))

Promise_prototype_test(m, p, tester) ==
    IF tester.fn # "undefined"
    THEN PromiseThen(m, p, Clo("test_onFulfilled", 0, 0, tester, Undefined),
                     Clo("test_onRejected", 0, 0, tester, Undefined))
    ELSE Return(m, PRef(p))

\* Promise.prototype.delay; the cell counts the runs of its reactions.
Promise_prototype_delay(m, p, amount) ==
    LET m1 == NewCell(m)
    IN  PromiseThen(m1, p, Clo("delay_onFulfilled", LastCell(m1), amount, NoFn, Undefined),
                    Clo("delay_onRejected", LastCell(m1), amount, NoFn, Undefined))

Promise_prototype_defer(m, p) ==
    PromiseThen(m, p, Clo("defer_onFulfilled", 0, 0, NoFn, Undefined),
                Clo("defer_onRejected", 0, 0, NoFn, Undefined))

\* Promise.all([a, b]) of the host: the values list and the count of the
\* elements still to come are cells base, base + 1 and base + 2; each element
\* gets a reaction pair, and the result is fulfilled with the list when the
\* count reaches 0 and rejected with the first failure.
Promise_all(m, a, b) ==
    LET m1 == NewPromiseCapability(m)
        r == m1.ret.n
        base == Len(m1.cells) + 1
        m2 == [m1 EXCEPT !.cells = @ \o <<Undefined, Undefined, 2>>]
        m3 == PromiseThen(m2, a, Clo("all_resolveElement", r, 0, NoFn, Num(base)),
                          Clo("all_reject", r, 0, NoFn, Undefined))
        m4 == PromiseThen(m3, b, Clo("all_resolveElement", r, 1, NoFn, Num(base)),
                          Clo("all_reject", r, 0, NoFn, Undefined))
    IN  Return(m4, PRef(r))

Promise_compare(m, a, b, comparator) ==
    LET m1 == Promise_all(m, a, b)
    IN  PromiseThen(m1, m1.ret.n, Clo("compare_onFulfilled", 0, 0, comparator, Undefined),
                    NoFn)

Promise_equals(m, a, b) ==
    Promise_compare(m, a, b, Clo("equals_comparator", 0, 0, NoFn, Undefined))

(***************************************************************************)
(* The arrow functions px.js registers as reactions.  h is the closure, x  *)
(* the settled value it is called with, c what the caller's function it    *)
(* invokes does.                                                           *)
(***************************************************************************)
\* the tester's reaction, had it counted with tries++
retry_onRejected_tester_postincrement(m, h, x, c) ==
    LET m1 == [m EXCEPT !.cells[h.a] = @ + 1]
        r == CallPredicate(m1, h.f, Num(m.cells[h.a]), x, c)
    IN  IF r.ret = Bool(TRUE)
        THEN retry_resub_tester(r, h.b, h.a, h.f)
        ELSE PromiseReject(r, x)

\* x => fn(++tries, x) ? resub() : Promise.reject(x)
retry_onRejected_tester(m, h, x, c) ==
    LET m1 == [m EXCEPT !.cells[h.a] = @ + 1]
        r == CallPredicate(m1, h.f, Num(m1.cells[h.a]), x, c)
    IN  IF r.ret = Bool(TRUE)
        THEN retry_resub_tester(r, h.b, h.a, h.f)
        ELSE PromiseReject(r, x)

\* the reaction of retry(), had it passed the failure on
retry_onRejected_giveup(m, h, x) == PromiseReject(m, x)

\* () => resub()
retry_onRejected(m, h, x) == retry_resub(m, h.b)

\* res => Promise.resolve(onFinally()).then(() => res)
finally_onFulfilled(m, h, res) ==
    LET r == CallCallable(m, h.f)
        m2 == PromiseResolve(r, r.ret)
    IN  IF r.thrown THEN r
        ELSE PromiseThen(m2, m2.ret.n, Clo("finally_value", 0, 0, NoFn, res), NoFn)

\* the reaction of finally to a failure, had it returned err
finally_onRejected_returning(m, h, err) ==
    LET r == CallCallable(m, h.f)
        m2 == PromiseResolve(r, r.ret)
    IN  IF r.thrown THEN r
        ELSE PromiseThen(m2, m2.ret.n, Clo("finally_value", 0, 0, NoFn, err), NoFn)

\* err => Promise.resolve(onFinally()).then(() => { throw err; })
finally_onRejected(m, h, err) ==
    LET r == CallCallable(m, h.f)
        m2 == PromiseResolve(r, r.ret)
    IN  IF r.thrown THEN r
        ELSE PromiseThen(m2, m2.ret.n, Clo("finally_throw", 0, 0, NoFn, err), NoFn)

\* the bipredicate's reaction, had it passed (value, x)
contains_bipredicate_swapped(m, h, x, c) == CallPredicate(m, h.f, h.v, x, c)

\* x => bipredicate(x, value)
contains_bipredicate(m, h, x, c) == CallPredicate(m, h.f, x, h.v, c)

\* x => x === value
contains_equals(m, h, x) == Return(m, Bool(StrictEquals(x, h.v)))

\* () => {success = true;}
timeout_observer(m, h, x) == Return([m EXCEPT !.cells[h.a] = 1], Undefined)

\* the timer's callback, had it not looked at success
timeout_callback_always_rejecting(m, cb) ==
    RejectFunction(m, cb.b, TimeoutException)

\* () => { if(success){ res(this); } else {
\*     rej(new Error('Promise TimeoutException')); } }
timeout_callback(m, cb) ==
    IF m.cells[cb.a] = 1
    THEN ResolveFunction(m, cb.b, cb.v)
    ELSE RejectFunction(m, cb.b, TimeoutException)

\* the reaction of test to a success, had it taken res for rej
test_onFulfilled_swapped(m, h, x, c) ==
    LET m1 == NewPromiseCapability(m)
        r == CallPredicate(m1, h.f, x, Bool(TRUE), c)
    IN  Return(IF r.ret = Bool(TRUE) THEN RejectFunction(r, m1.ret.n, x)
               ELSE ResolveFunction(r, m1.ret.n, x), m1.ret)

\* x => new Promise((res, rej) => tester(x, true) ? res(x) : rej(x))
test_onFulfilled(m, h, x, c) ==
    LET m1 == NewPromiseCapability(m)
        r == CallPredicate(m1, h.f, x, Bool(TRUE), c)
    IN  Return(IF r.ret = Bool(TRUE) THEN ResolveFunction(r, m1.ret.n, x)
               ELSE RejectFunction(r, m1.ret.n, x), m1.ret)

\* x => new Promise((res, rej) => tester(x, false) ? res(x) : rej(x))
test_onRejected(m, h, x, c) ==
    LET m1 == NewPromiseCapability(m)
        r == CallPredicate(m1, h.f, x, Bool(FALSE), c)
    IN  Return(IF r.ret = Bool(TRUE) THEN ResolveFunction(r, m1.ret.n, x)
               ELSE RejectFunction(r, m1.ret.n, x), m1.ret)

\* x => new Promise((res) => { setTimeout(res, amount, x); })
delay_onFulfilled(m, h, x) ==
    LET m1 == NewPromiseCapability(m)
        m2 == Invoked(m1, h, Event("delay_reaction", h.a, m1.ret.n, x, Num(m.now),
                                   Bool(TRUE)))
    IN  Return(SetTimeout(m2, Clo("resolveFunction", m1.ret.n, 0, NoFn, Undefined),
                          h.b, x), m1.ret)

\* the reaction of delay to a failure, had it set the timer on res
delay_onRejected_resolving(m, h, x) ==
    LET m1 == NewPromiseCapability(m)
        m2 == Invoked(m1, h, Event("delay_reaction", h.a, m1.ret.n, x, Num(m.now),
                                   Bool(FALSE)))
    IN  Return(SetTimeout(m2, Clo("resolveFunction", m1.ret.n, 0, NoFn, Undefined),
                          h.b, x), m1.ret)

\* x => new Promise((res, rej) => { setTimeout(rej, amount, x); })
delay_onRejected(m, h, x) ==
    LET m1 == NewPromiseCapability(m)
        m2 == Invoked(m1, h, Event("delay_reaction", h.a, m1.ret.n, x, Num(m.now),
                                   Bool(FALSE)))
    IN  Return(SetTimeout(m2, Clo("rejectFunction", m1.ret.n, 0, NoFn, Undefined),
                          h.b, x), m1.ret)

\* x => DeferredPromise.resolve(x)
defer_onFulfilled(m, h, x) == DeferredPromise_resolve(m, x)

\* x => DeferredPromise.reject(x)
defer_onRejected(m, h, x) == DeferredPromise_reject(m, x)

\* The resolve element function of Promise.all for element h.b.
all_resolveElement(m, h, x) ==
    LET base == h.v.n
        m1 == [m EXCEPT !.cells[base + h.b] = x, !.cells[base + 2] = @ - 1]
    IN  Return(IF m1.cells[base + 2] = 0
               THEN ResolveFunction(m1, h.a, [k |-> "array", n |-> base])
               ELSE m1, Undefined)

\* The reject function of the promise Promise.all returns.
all_reject(m, h, x) == Return(RejectFunction(m, h.a, x), Undefined)

\* (x, y) => x === y
equals_comparator(m, x, y) == Return(m, Bool(StrictEquals(x, y)))

\* comparator(x, y): the function of equals, or the caller's CompareTester
CallComparator(m, f, x, y, c) ==
    IF f.fn = "equals_comparator" THEN equals_comparator(m, x, y)
    ELSE CallPredicate(m, f, x, y, c)

\* the reaction of compare, had it passed (x[1], x[0])
compare_onFulfilled_swapped(m, h, x, c) ==
    CallComparator(m, h.f, m.cells[x.n + 1], m.cells[x.n], c)

\* x => comparator(x[0], x[1])
compare_onFulfilled(m, h, x, c) ==
    CallComparator(m, h.f, m.cells[x.n], m.cells[x.n + 1], c)

(***************************************************************************)
(* The host running a job or a timer.                                      *)
(***************************************************************************)
\* handler(x)
CallHandler(m, h, x, c) ==
    CASE h.fn \in {"identity", "retry_onFulfilled"} -> Return(m, x)
      [] h.fn = "thrower" -> Throw(m, x)
      [] h.fn = "finally_value" -> Return(m, h.v)
      [] h.fn = "finally_throw" -> Throw(m, h.v)
      [] h.fn \in {"onResolve", "onReject"} -> CallContinuation(m, h, x)
      [] h.fn = "thenable_resolve" -> Return(ResolvePromise(m, h.a, x), Undefined)
      [] h.fn = "thenable_reject" ->
           Return(SettlePromise(m, h.a, "rejected", x), Undefined)
      [] h.fn = "retry_onRejected_tester" -> retry_onRejected_tester(m, h, x, c)
      [] h.fn = "retry_onRejected" -> retry_onRejected(m, h, x)
      [] h.fn = "finally_onFulfilled" -> finally_onFulfilled(m, h, x)
      [] h.fn = "finally_onRejected" -> finally_onRejected(m, h, x)
      [] h.fn = "contains_bipredicate" -> contains_bipredicate(m, h, x, c)
      [] h.fn = "contains_equals" -> contains_equals(m, h, x)
      [] h.fn = "timeout_observer" -> timeout_observer(m, h, x)
      [] h.fn = "test_onFulfilled" -> test_onFulfilled(m, h, x, c)
      [] h.fn = "test_onRejected" -> test_onRejected(m, h, x, c)
      [] h.fn = "delay_onFulfilled" -> delay_onFulfilled(m, h, x)
      [] h.fn = "delay_onRejected" -> delay_onRejected(m, h, x)
      [] h.fn = "defer_onFulfilled" -> defer_onFulfilled(m, h, x)
      [] h.fn = "defer_onRejected" -> defer_onRejected(m, h, x)
      [] h.fn = "all_resolveElement" -> all_resolveElement(m, h, x)
      [] h.fn = "all_reject" -> all_reject(m, h, x)
      [] h.fn = "compare_onFulfilled" -> compare_onFulfilled(m, h, x, c)

\* thenable.then(onFulfilled, onRejected), whatever the thenable is
CallThen(m, thenable, onFulfilled, onRejected) ==
    CASE thenable.k = "promise" -> PromiseThen(m, thenable.n, onFulfilled, onRejected)
      [] thenable.k = "deferred" ->
           DeferredPromise_then(m, thenable.n, onFulfilled, onRejected)
      [] thenable.k = "published" ->
           PublishedPromise_then(m, thenable.n, onFulfilled, onRejected)

\* PromiseReactionJob and PromiseResolveThenableJob
RunJob(m, job, c) ==
    IF job.type = "thenable"
    THEN LET r == CallThen(m, job.arg,
                           Clo("thenable_resolve", job.child, 0, NoFn, Undefined),
                           Clo("thenable_reject", job.child, 0, NoFn, Undefined))
         IN  IF r.thrown THEN SettlePromise(r, job.child, "rejected", r.ret) ELSE r
    ELSE LET r == CallHandler(m, job.handler, job.arg, c)
         IN  IF r.thrown THEN RejectFunction(r, job.child, r.ret)
             ELSE ResolveFunction(r, job.child, r.ret)

\* () => { this._supplier(res, rej); } of DeferredPromise.delay: cb.f is
\* this._supplier, cb.a the promise res and rej belong to.
delay_callback(m, cb) == CallExecutor(m, cb.f, cb.a)

\* The timer callbacks: cb(arg).  What a callback throws is caught by no
\* one: the host reports it as an uncaught exception.
RunTimer(m, t) ==
    LET m1 == Logged(m, Event(t.cb.fn, t.cb.a, m.now, t.arg, Undefined, Undefined))
        r == CASE t.cb.fn = "resolveFunction" -> ResolveFunction(m1, t.cb.a, t.arg)
               [] t.cb.fn = "rejectFunction" -> RejectFunction(m1, t.cb.a, t.arg)
               [] t.cb.fn = "timeout_callback" -> timeout_callback(m1, t.cb)
               [] t.cb.fn = "delay_callback" -> delay_callback(m1, t.cb)
    IN  IF r.thrown
        THEN Logged(r, Event("uncaught", t.cb.a, m.now, r.ret, Undefined, Undefined))
        ELSE r

\* What the predicate a job calls may return.
ChoicesFor(job) ==
    IF job.type = "reaction"
       /\ \/ job.handler.fn \in {"retry_onRejected_tester", "contains_bipredicate",
                                 "test_onFulfilled", "test_onRejected"}
          \/ /\ job.handler.fn = "compare_onFulfilled"
             /\ job.handler.f.fn # "equals_comparator"
    THEN BoolChoices
    ELSE {NoChoice}

\* The timer to fire next: the earliest due, the first registered among those.
NextTimer ==
    CHOOSE i \in 1..Len(timers) :
        \A j \in 1..Len(timers) :
            timers[i].due < timers[j].due \/ (timers[i].due = timers[j].due /\ i <= j)

Remove(seq, i) == [j \in 1..(Len(seq) - 1) |-> IF j < i THEN seq[j] ELSE seq[j + 1]]

(***************************************************************************)
(* The state after the module is loaded, and the host's own steps.         *)
(***************************************************************************)
Init ==
    /\ heap = <<>>
    /\ jobs = <<>>
    /\ timers = <<>>
    /\ now = 0
    /\ cells = <<>>
    /\ defs = <<>>
    /\ pubs = <<>>
    /\ log = <<>>
    /\ running = TRUE

\* The caller's synchronous code returns to the host.
EndTask ==
    /\ running
    /\ running' = FALSE
    /\ UNCHANGED state

\* A job that would start attempt MaxAttempts + 1 of a retry: the model
\* follows a retry no further.
RetryCapped(job) ==
    /\ job.type = "reaction"
    /\ job.handler.fn \in {"retry_onRejected", "retry_onRejected_tester"}
    /\ cells[defs[job.handler.b].supplier.a] >= MaxAttempts

\* The host runs the job at the head of the microtask queue, once the
\* synchronous code has returned.
RunMicrotask ==
    /\ ~running
    /\ jobs # <<>>
    /\ ~RetryCapped(Head(jobs))
    /\ \E c \in ChoicesFor(Head(jobs)) :
           Commit(RunJob([M EXCEPT !.jobs = Tail(jobs)], Head(jobs), c))

\* The host fires the next timer, once the microtask queue is empty.
FireTimer ==
    /\ ~running
    /\ jobs = <<>>
    /\ timers # <<>>
    /\ LET i == NextTimer
       IN  Commit(RunTimer([M EXCEPT !.timers = Remove(timers, i),
                                     !.now = timers[i].due], timers[i]))

(***************************************************************************)
(* The caller's calls on a DeferredPromise.  A run follows one             *)
(* DeferredPromise the caller makes, and the calls on it.                  *)
(***************************************************************************)
CountEvents(evs, d) ==
    Cardinality({i \in 1..Len(log) : log[i].ev \in evs /\ log[i].id = d})

AttachEvents == {"then", "catch", "finally", "toPromise"}
Attachments == Cardinality({i \in 1..Len(log) : log[i].ev \in AttachEvents})

\* A later task of the caller (an event, a callback of its own) starts, once
\* the microtask queue is empty.
BeginTaskDeferred ==
    /\ ~running
    /\ jobs = <<>>
    /\ defs # <<>>
    /\ Attachments < MaxAttach
    /\ running' = TRUE
    /\ UNCHANGED state

\* DeferredPromise.resolve(v)
CallDeferredResolve ==
    /\ running
    /\ defs = <<>>
    /\ \E v \in Vals : Commit(DeferredPromise_resolve(M, v))

\* DeferredPromise.reject(v)
CallDeferredReject ==
    /\ running
    /\ defs = <<>>
    /\ \E v \in Vals : Commit(DeferredPromise_reject(M, v))

\* new DeferredPromise(fn), fn a Producer of the caller
CallNewDeferred ==
    /\ running
    /\ defs = <<>>
    /\ \E fn \in Producers(Len(cells) + 1) :
           Commit(DeferredPromise_constructor(NewCell(M), fn))

\* DeferredPromise.fromCallable(fn)
CallFromCallable ==
    /\ running
    /\ defs = <<>>
    /\ \E fn \in {f \in Callables(Len(cells) + 1) : f.fn \in {"return", "throw"}} :
           LET r == DeferredPromise_fromCallable(NewCell(M), fn)
           IN  Commit(Logged(r, Event("fromCallable", r.ret.n, fn.a,
                                      Undefined, Undefined, Undefined)))

\* Promise.fromCallableDeferred(fn)
CallFromCallableDeferred ==
    /\ running
    /\ defs = <<>>
    /\ \E fn \in {f \in Callables(Len(cells) + 1) : f.fn \in {"return", "throw"}} :
           LET r == Promise_fromCallableDeferred(NewCell(M), fn)
           IN  Commit(Logged(r, Event("fromCallable", r.ret.n, fn.a,
                                      Undefined, Undefined, Undefined)))

\* d.then(onResolve, onReject)
CallThenDeferred ==
    /\ running
    /\ Attachments < MaxAttach
    /\ \E d \in 1..Len(defs) :
           LET m1 == NewCell(NewCell(M))
               res == Clo("onResolve", LastCell(m1) - 1, 0, NoFn, Undefined)
               rej == Clo("onReject", LastCell(m1), 0, NoFn, Undefined)
               r == DeferredPromise_then(m1, d, res, rej)
           IN  Commit(Logged(r, Event("then", d, r.ret.n, Num(res.a), Num(rej.a),
                                      Undefined)))

\* d.catch(onReject)
CallCatchDeferred ==
    /\ running
    /\ Attachments < MaxAttach
    /\ \E d \in 1..Len(defs) :
           LET m1 == NewCell(M)
               rej == Clo("onReject", LastCell(m1), 0, NoFn, Undefined)
               r == DeferredPromise_catch(m1, d, rej)
           IN  Commit(Logged(r, Event("catch", d, r.ret.n, Undefined, Num(rej.a),
                                      Undefined)))

\* d.finally(onFinally)
CallFinallyDeferred ==
    /\ running
    /\ Attachments < MaxAttach
    /\ \E d \in 1..Len(defs),
          fin \in {f \in Callables(Len(cells) + 1) :
                      f.fn \in {"return", "throw"} /\ f.v \notin Vals} :
           LET r == DeferredPromise_finally(NewCell(M), d, fin)
           IN  Commit(Logged(r, Event("finally", d, r.ret.n, Num(fin.a), Undefined,
                                      Undefined)))

\* d.toPromise()
CallToPromiseDeferred ==
    /\ running
    /\ Attachments < MaxAttach
    /\ \E d \in 1..Len(defs) :
           LET r == DeferredPromise_toPromise(M, d)
           IN  Commit(Logged(r, Event("toPromise", d, r.ret.n, Undefined, Undefined,
                                      Undefined)))

NextDeferred ==
    \/ CallDeferredResolve
    \/ CallDeferredReject
    \/ CallNewDeferred
    \/ CallFromCallable
    \/ CallFromCallableDeferred
    \/ CallThenDeferred
    \/ CallCatchDeferred
    \/ CallFinallyDeferred
    \/ CallToPromiseDeferred
    \/ EndTask
    \/ BeginTaskDeferred
    \/ RunMicrotask

SpecDeferred == Init /\ [][NextDeferred]_vars

(***************************************************************************)
(* The caller's retry calls on the DeferredPromise.                        *)
(***************************************************************************)
Retries == Cardinality({i \in 1..Len(log) : log[i].ev = "retry"})

BeginTaskRetry ==
    /\ ~running
    /\ jobs = <<>>
    /\ defs # <<>>
    /\ Retries < MaxRetry
    /\ running' = TRUE
    /\ UNCHANGED state

\* d.retry()
CallRetry ==
    /\ running
    /\ Retries < MaxRetry
    /\ \E d \in 1..Len(defs) :
           LET r == DeferredPromise_retry(M, d, NoFn)
           IN  Commit(Logged(r, Event("retry", d, r.ret.n, Undefined, Undefined,
                                      Undefined)))

\* d.retry(fn), fn a RetryTester of the caller
CallRetryTester ==
    /\ running
    /\ Retries < MaxRetry
    /\ \E d \in 1..Len(defs) :
           LET m1 == NewCell(M)
               fn == Clo("tester", LastCell(m1), 0, NoFn, Undefined)
               r == DeferredPromise_retry(m1, d, fn)
           IN  Commit(Logged(r, Event("retry", d, r.ret.n, Num(fn.a), Undefined,
                                      Undefined)))

NextRetry ==
    \/ CallNewDeferred
    \/ CallDeferredReject
    \/ CallRetry
    \/ CallRetryTester
    \/ EndTask
    \/ BeginTaskRetry
    \/ RunMicrotask

SpecRetry == Init /\ [][NextRetry]_vars

(***************************************************************************)
(* The caller's calls on a PublishedPromise.  A run follows one            *)
(* PublishedPromise the caller makes, and the calls on it.                 *)
(***************************************************************************)
\* The Producers the caller may pass: one that settles at once, throws,
\* settles by a timer, or never settles.  Their values are not the caller's.
PublishedProducers(cell) ==
    {Clo("producer", cell, k, NoFn, Num(0)) : k \in {0, 1}}
      \cup {Clo("producer_throw", cell, 0, NoFn, Err(0))}
      \cup {Clo("producer_later", cell, 1, NoFn, Num(0))}
      \cup {Clo("producer_later_reject", cell, 1, NoFn, Err(0))}
      \cup {Clo("producer_never", cell, 0, NoFn, Undefined)}

SettleEvents == {"resolve", "reject"}
Settles == Cardinality({i \in 1..Len(log) : log[i].ev \in SettleEvents})

BeginTaskPublished ==
    /\ ~running
    /\ jobs = <<>>
    /\ pubs # <<>>
    /\ Attachments < MaxAttach \/ Settles < MaxSettle
    /\ running' = TRUE
    /\ UNCHANGED state

\* new PublishedPromise()
CallNewPublished ==
    /\ running
    /\ pubs = <<>>
    /\ LET r == PublishedPromise_constructor(M, NoFn)
       IN  Commit(Logged(r, Event("publish", r.ret.n, 0, Undefined, Undefined,
                                  NoFn)))

\* Promise.publish(fn), fn a Producer of the caller
CallPublish ==
    /\ running
    /\ pubs = <<>>
    /\ \E fn \in PublishedProducers(Len(cells) + 1) :
           LET r == Promise_publish(NewCell(M), fn)
           IN  Commit(Logged(r, Event("publish", r.ret.n, fn.a, Undefined, Undefined,
                                      fn)))

\* pub.resolve(v)
CallResolvePublished ==
    /\ running
    /\ Settles < MaxSettle
    /\ \E pub \in 1..Len(pubs), v \in Vals :
           Commit(Logged(PublishedPromise_resolve(M, pub, v),
                         Event("resolve", pub, 0, v, Undefined, Undefined)))

\* pub.reject(v)
CallRejectPublished ==
    /\ running
    /\ Settles < MaxSettle
    /\ \E pub \in 1..Len(pubs), v \in Vals :
           Commit(Logged(PublishedPromise_reject(M, pub, v),
                         Event("reject", pub, 0, v, Undefined, Undefined)))

\* pub.then(onResolve, onReject)
CallThenPublished ==
    /\ running
    /\ Attachments < MaxAttach
    /\ \E pub \in 1..Len(pubs) :
           LET m1 == NewCell(NewCell(M))
               res == Clo("onResolve", LastCell(m1) - 1, 0, NoFn, Undefined)
               rej == Clo("onReject", LastCell(m1), 0, NoFn, Undefined)
               r == PublishedPromise_then(m1, pub, res, rej)
           IN  Commit(Logged(r, Event("then", pub, r.ret.n, Num(res.a), Num(rej.a),
                                      Undefined)))

\* pub.catch(onReject)
CallCatchPublished ==
    /\ running
    /\ Attachments < MaxAttach
    /\ \E pub \in 1..Len(pubs) :
           LET m1 == NewCell(M)
               rej == Clo("onReject", LastCell(m1), 0, NoFn, Undefined)
               r == PublishedPromise_catch(m1, pub, rej)
           IN  Commit(Logged(r, Event("catch", pub, r.ret.n, Undefined, Num(rej.a),
                                      Undefined)))

\* pub.finally(onFinally)
CallFinallyPublished ==
    /\ running
    /\ Attachments < MaxAttach
    /\ \E pub \in 1..Len(pubs),
          fin \in {f \in Callables(Len(cells) + 1) : f.fn = "return" /\ f.v = Undefined} :
           LET r == PublishedPromise_finally(NewCell(M), pub, fin)
           IN  Commit(Logged(r, Event("finally", pub, r.ret.n, Num(fin.a), Undefined,
                                      Undefined)))

\* pub.toPromise()
CallToPromisePublished ==
    /\ running
    /\ Attachments < MaxAttach
    /\ \E pub \in 1..Len(pubs) :
           LET r == PublishedPromise_toPromise(M, pub)
           IN  Commit(Logged(r, Event("toPromise", pub, r.ret.n, Undefined, Undefined,
                                      Undefined)))

NextPublished ==
    \/ CallNewPublished
    \/ CallPublish
    \/ CallResolvePublished
    \/ CallRejectPublished
    \/ CallThenPublished
    \/ CallCatchPublished
    \/ CallFinallyPublished
    \/ CallToPromisePublished
    \/ EndTask
    \/ BeginTaskPublished
    \/ RunMicrotask
    \/ FireTimer

SpecPublished == Init /\ [][NextPublished]_vars

(***************************************************************************)
(* The caller's calls of the extensions.  A run follows one source promise *)
(* the caller makes and the extensions it calls on it.                     *)
(***************************************************************************)
CallEvents == {"contains", "timeout", "finally", "test"}
Calls == Cardinality({i \in 1..Len(log) : log[i].ev \in CallEvents})
Sources == {i \in 1..Len(log) : log[i].ev = "source"}

BeginTaskExtensions ==
    /\ ~running
    /\ jobs = <<>>
    /\ Sources # {}
    /\ Calls < MaxCalls
    /\ running' = TRUE
    /\ UNCHANGED state

\* Promise.resolve(v)
CallPromiseResolve ==
    /\ running
    /\ Sources = {}
    /\ \E v \in Vals :
           LET r == PromiseResolve(M, v)
           IN  Commit(Logged(r, Event("source", r.ret.n, 0, v, Undefined, Undefined)))

\* Promise.reject(v)
CallPromiseReject ==
    /\ running
    /\ Sources = {}
    /\ \E v \in Vals :
           LET r == PromiseReject(M, v)
           IN  Commit(Logged(r, Event("source", r.ret.n, 0, v, Undefined, Undefined)))

\* Promise.delayedResolve(v, amount)
CallDelayedResolve ==
    /\ running
    /\ Sources = {}
    /\ \E v \in Vals, amount \in Delays :
           LET r == Promise_delayedResolve(M, v, amount)
           IN  Commit(Logged(r, Event("source", r.ret.n, amount, v, Undefined,
                                      Undefined)))

\* Promise.delayedReject(v, amount)
CallDelayedReject ==
    /\ running
    /\ Sources = {}
    /\ \E v \in Vals, amount \in Delays :
           LET r == Promise_delayedReject(M, v, amount)
           IN  Commit(Logged(r, Event("source", r.ret.n, amount, v, Undefined,
                                      Undefined)))

\* p.contains(value) and p.contains(value, bipredicate)
CallContains ==
    /\ running
    /\ Calls < MaxCalls
    /\ \E i \in Sources, value \in Vals,
          fn \in {NoFn, Clo("bipredicate", Len(cells) + 1, 0, NoFn, Undefined)} :
           LET r == Promise_prototype_contains(NewCell(M), log[i].id, value, fn)
           IN  Commit(Logged(r, Event("contains", log[i].id, r.ret.n, value, Undefined,
                                      fn)))

\* p.timeout(amount)
CallTimeout ==
    /\ running
    /\ Calls < MaxCalls
    /\ \E i \in Sources, amount \in Delays :
           LET r == Promise_prototype_timeout(M, log[i].id, amount)
           IN  Commit(Logged(r, Event("timeout", log[i].id, r.ret.n, Num(amount),
                                      Num(Len(cells) + 1), Num(now))))

\* p.finally(onFinally)
CallFinally ==
    /\ running
    /\ Calls < MaxCalls
    /\ \E i \in Sources, fin \in Callables(Len(cells) + 1) :
           LET r == Promise_prototype_finally(NewCell(M), log[i].id, fin)
           IN  Commit(Logged(r, Event("finally", log[i].id, r.ret.n, Undefined,
                                      Undefined, fin)))

\* p.test(tester)
CallTest ==
    /\ running
    /\ Calls < MaxCalls
    /\ \E i \in Sources,
          fn \in {NoFn, Clo("tester", Len(cells) + 1, 0, NoFn, Undefined)} :
           LET r == Promise_prototype_test(NewCell(M), log[i].id, fn)
           IN  Commit(Logged(r, Event("test", log[i].id, r.ret.n, Undefined, Undefined,
                                      fn)))

NextExtensions ==
    \/ CallPromiseResolve
    \/ CallPromiseReject
    \/ CallDelayedResolve
    \/ CallDelayedReject
    \/ CallContains
    \/ CallTimeout
    \/ CallFinally
    \/ CallTest
    \/ EndTask
    \/ BeginTaskExtensions
    \/ RunMicrotask
    \/ FireTimer

SpecExtensions == Init /\ [][NextExtensions]_vars

(***************************************************************************)
(* Properties of DeferredPromise.                                          *)
(***************************************************************************)
Quiescent == ~running /\ jobs = <<>> /\ timers = <<>>

EventsOf(ev, id) == {i \in 1..Len(log) : log[i].ev = ev /\ log[i].id = id}
Fulfilled(p, v) == heap[p].state = "fulfilled" /\ heap[p].value = v
Rejected(p, v) == heap[p].state = "rejected" /\ heap[p].value = v

\* C1: constructing a DeferredPromise invokes nothing, and every then,
\* catch, finally and toPromise call on it invokes its Producer once, on a
\* promise of its own: the Producer has run as often as d was attached to.
\* For DeferredPromise.resolve(v) each of these promises is fulfilled with v,
\* and once the jobs have run each onResolve given to then was called once,
\* with v, and no onReject was called.
C1_ProducerPerAttachment ==
    \A d \in 1..Len(defs) :
        LET s == defs[d].supplier
            made == EventsOf("producer", s.a)
        IN  /\ cells[s.a] = CountEvents(AttachEvents, d)
            /\ Cardinality(made) = cells[s.a]
            /\ \A i, j \in made : i # j => log[i].n # log[j].n
            /\ s.fn = "res_value" =>
                 /\ \A i \in made : Fulfilled(log[i].n, s.v)
                 /\ \A i \in EventsOf("toPromise", d) : Fulfilled(log[i].n, s.v)
                 /\ \A i \in EventsOf("then", d) :
                        /\ cells[log[i].w.n] = 0
                        /\ cells[log[i].v.n] <= 1
                        /\ jobs = <<>> => cells[log[i].v.n] = 1
                        /\ \A j \in EventsOf("onResolve", log[i].v.n) : log[j].v = s.v

\* C1's case: DeferredPromise.resolve(v) attached to twice by then, both
\* onResolve called.
C1_Witness ==
    \E d \in 1..Len(defs) :
        /\ defs[d].supplier.fn = "res_value"
        /\ cells[defs[d].supplier.a] = 2
        /\ Cardinality(EventsOf("then", d)) = 2
        /\ \A i \in EventsOf("then", d) : cells[log[i].v.n] = 1

\* C8: DeferredPromise.fromCallable(fn) and Promise.fromCallableDeferred(fn)
\* do not invoke fn; fn is invoked once per attachment to the DeferredPromise
\* they return.
C8_CallableInvokedPerAttachment ==
    \A i \in 1..Len(log) :
        log[i].ev = "fromCallable" =>
            cells[log[i].n] = CountEvents(AttachEvents, log[i].id)

\* The retry calls on which a claim about one retry speaks: the only call on
\* its DeferredPromise, whose Producer the caller wrote.
SoleRetries ==
    {i \in 1..Len(log) :
        /\ log[i].ev = "retry"
        /\ Cardinality(EventsOf("retry", log[i].id)) = 1
        /\ CountEvents(AttachEvents, log[i].id) = 0}

Min(a, b) == IF a < b THEN a ELSE b

\* C2: retry() with no tester on a DeferredPromise whose Producer fails on
\* its first k invocations and then succeeds with v: the returned promise is
\* never rejected, the Producer is invoked at most k + 1 times, and once the
\* jobs have run the promise is fulfilled with v after exactly k + 1
\* invocations.
C2_RetryUntilSuccess ==
    \A i \in SoleRetries :
        LET s == defs[log[i].id].supplier
            q == log[i].n
        IN  (log[i].v = Undefined /\ s.fn = "producer") =>
                /\ cells[s.a] <= s.b + 1
                /\ heap[q].state # "rejected"
                /\ heap[q].state = "fulfilled" =>
                       heap[q].value = s.v /\ cells[s.a] = s.b + 1
                /\ jobs = <<>> => Fulfilled(q, s.v) /\ cells[s.a] = s.b + 1

\* C2's case: the Producer failed twice and the third attempt fulfilled the
\* promise retry() returned.
C2_Witness ==
    \E i \in SoleRetries :
        LET s == defs[log[i].id].supplier
        IN  /\ log[i].v = Undefined
            /\ s.fn = "producer"
            /\ s.b = 2
            /\ cells[s.a] = 3
            /\ Fulfilled(log[i].n, s.v)

\* The value the Producer s fails with on its j-th invocation.
FailureOf(s, j) ==
    CASE s.fn = "producer" -> Err(j)
      [] s.fn = "producer_throw" -> s.v
      [] s.fn = "rej_value" -> s.v

\* The failed attempts among the invocations of Producer s so far.
FailedAttempts(s) ==
    IF s.fn = "producer" THEN Min(cells[s.a], s.b) ELSE cells[s.a]

\* C3: retry(fn): fn is called once per failed attempt, as fn(j, failure of
\* attempt j) for j = 1, 2, ..., and never for a successful attempt.  Once fn
\* has returned false, for attempt j, the Producer has run exactly j times
\* and is not invoked again, and the returned promise is rejected, once the
\* jobs have run, with the failure of attempt j; it is rejected in no other
\* case.  While fn returns true the retry goes on, up to the success.
C3_RetryTester ==
    \A i \in SoleRetries :
        LET s == defs[log[i].id].supplier
            q == log[i].n
            t == log[i].v.n
            calls == EventsOf("predicate", t)
            refused == {c \in calls : log[c].r = Bool(FALSE)}
        IN  log[i].v # Undefined =>
                /\ Cardinality(calls) = cells[t]
                /\ \A c \in calls :
                       /\ log[c].v = Num(log[c].n)
                       /\ log[c].w = FailureOf(s, log[c].n)
                /\ cells[t] <= FailedAttempts(s)
                /\ cells[t] >= FailedAttempts(s) - 1
                /\ jobs = <<>> => cells[t] = FailedAttempts(s)
                /\ \A c \in refused :
                       /\ log[c].n = cells[t]
                       /\ cells[s.a] = log[c].n
                       /\ heap[q].state # "fulfilled"
                       /\ jobs = <<>> => Rejected(q, log[c].w)
                /\ heap[q].state = "rejected" =>
                       \E c \in refused : heap[q].value = log[c].w
                /\ (refused = {} /\ jobs = <<>> /\ s.fn = "producer") =>
                       /\ Fulfilled(q, s.v)
                       /\ cells[s.a] = s.b + 1

\* C3's case: fn returned true for the first failure and false for the
\* second, and the promise is rejected with the second failure after two
\* invocations of the Producer.
C3_Witness ==
    \E i \in SoleRetries :
        LET s == defs[log[i].id].supplier
        IN  /\ log[i].v # Undefined
            /\ s.fn = "producer"
            /\ cells[log[i].v.n] = 2
            /\ cells[s.a] = 2
            /\ Rejected(log[i].n, Err(2))

(***************************************************************************)
(* Properties of PublishedPromise.                                         *)
(***************************************************************************)
\* The Producer PublishedPromise pub was made with, NoFn if with none.
ProducerOf(pub) ==
    LET i == CHOOSE i \in 1..Len(log) : log[i].ev = "publish" /\ log[i].id = pub
    IN  log[i].r

\* The settlement attempts on PublishedPromise pub, as places in the log: a
\* Producer that settles or throws inside the constructor, a timer of the
\* Producer calling res or rej, and the caller's resolve and reject calls.
AttemptsOn(pub) ==
    {i \in 1..Len(log) :
        \/ log[i].ev \in SettleEvents /\ log[i].id = pub
        \/ /\ log[i].ev \in {"resolveFunction", "rejectFunction"}
           /\ log[i].id = pubs[pub].promise
        \/ /\ log[i].ev = "producer"
           /\ log[i].id = ProducerOf(pub).a
           /\ ProducerOf(pub).fn \in {"producer", "producer_throw"}}

FirstOf(S) == CHOOSE i \in S : \A j \in S : i <= j

\* The state and the value attempt i on pub asks for.
AttemptState(pub, i) ==
    CASE log[i].ev \in {"resolve", "resolveFunction"} -> "fulfilled"
      [] log[i].ev \in {"reject", "rejectFunction"} -> "rejected"
      [] log[i].ev = "producer" ->
           IF ProducerOf(pub).fn = "producer" /\ ProducerOf(pub).b = 0
           THEN "fulfilled" ELSE "rejected"

AttemptValue(pub, i) ==
    IF log[i].ev = "producer"
    THEN IF ProducerOf(pub).fn = "producer" /\ ProducerOf(pub).b >= 1
         THEN Err(1) ELSE ProducerOf(pub).v
    ELSE log[i].v

\* C4: a PublishedPromise made without a Producer is settled by the first
\* resolve or reject call, with that call's value, and no later call changes
\* its state or value.  Every onResolve given to then is called at most
\* once, and only with the first call's value if that was a resolve, in
\* which case it has been called exactly once when the jobs have run,
\* whatever calls followed; onReject likewise for a reject.
C4_PublishedSettlesOnce ==
    \A pub \in 1..Len(pubs) :
        pubs[pub].promise # 0 /\ ProducerOf(pub) = NoFn =>
            LET p == pubs[pub].promise
                calls == AttemptsOn(pub)
                first == FirstOf(calls)
            IN  /\ calls = {} => heap[p].state = "pending"
                /\ calls # {} =>
                     /\ heap[p].state = AttemptState(pub, first)
                     /\ heap[p].value = AttemptValue(pub, first)
                /\ \A i \in EventsOf("then", pub) :
                     LET res == log[i].v.n
                         rej == log[i].w.n
                     IN  /\ cells[res] + cells[rej] <= 1
                         /\ \A j \in EventsOf("onResolve", res) \cup EventsOf("onReject", rej) :
                                /\ calls # {}
                                /\ first < j
                                /\ log[j].v = log[first].v
                         /\ cells[res] = 1 => log[first].ev = "resolve"
                         /\ cells[rej] = 1 => log[first].ev = "reject"
                         /\ (calls # {} /\ jobs = <<>> /\ ~running) =>
                                cells[res] + cells[rej] = 1

\* C4's case: a continuation attached, then resolve(v), then a call with
\* another value; the continuation was called once.
C4_Witness ==
    \E pub \in 1..Len(pubs) :
        /\ ProducerOf(pub) = NoFn
        /\ \E i \in EventsOf("then", pub), a, b \in AttemptsOn(pub) :
               /\ i < a
               /\ a < b
               /\ log[a].ev = "resolve"
               /\ log[b].v # log[a].v
               /\ cells[log[i].v.n] = 1
               /\ jobs = <<>>

\* C5: a PublishedPromise made with a Producer has invoked it exactly once
\* when the constructor returns, on the promise it holds, and no then, catch,
\* finally or toPromise invokes it again; toPromise returns that promise.  Of
\* the settlement attempts (the Producer's, at once or by its timer, and the
\* caller's resolve and reject calls) the first decides the state and the
\* value of the promise for good.
C5_PublishedProducerOnce ==
    \A pub \in 1..Len(pubs) :
        pubs[pub].promise # 0 /\ ProducerOf(pub) # NoFn =>
            LET p == pubs[pub].promise
                c == ProducerOf(pub).a
                calls == AttemptsOn(pub)
                first == FirstOf(calls)
            IN  /\ cells[c] = 1
                /\ \A i \in EventsOf("producer", c) : log[i].n = p
                /\ \A i \in EventsOf("toPromise", pub) : log[i].n = p
                /\ calls = {} => heap[p].state = "pending"
                /\ calls # {} =>
                     /\ heap[p].state = AttemptState(pub, first)
                     /\ heap[p].value = AttemptValue(pub, first)

\* C5's case: the Producer set a timer, the caller attached and rejected
\* first, and the Producer's timer fired on the settled promise.
C5_Witness ==
    \E pub \in 1..Len(pubs) :
        /\ ProducerOf(pub).fn = "producer_later"
        /\ EventsOf("then", pub) # {}
        /\ \E a, b \in AttemptsOn(pub) :
               /\ a < b
               /\ log[a].ev = "reject"
               /\ log[b].ev = "resolveFunction"
               /\ heap[pubs[pub].promise].state = "rejected"

(***************************************************************************)
(* Properties of the extensions.                                           *)
(***************************************************************************)
CallsOf(ev) == {i \in 1..Len(log) : log[i].ev = ev}
Settled(p) == heap[p].state # "pending"

\* Whether the timer p.timeout(..) set for the promise q it returned is
\* still to fire, in a list of timers.
TimeoutPending(ts, q) ==
    \E k \in 1..Len(ts) : ts[k].cb.fn = "timeout_callback" /\ ts[k].cb.b = q

\* The step of a timeout's timer firing: with success set, the returned
\* promise q is resolved with the source p; otherwise it is rejected with the
\* timeout error.  And q, once rejected or once resolved with p, is not
\* rejected or changed afterwards.
C6_Step ==
    \A i \in CallsOf("timeout") :
        LET p == log[i].id
            q == log[i].n
            success == log[i].w.n
        IN  /\ (TimeoutPending(timers, q) /\ ~TimeoutPending(timers', q)) =>
                 IF cells[success] = 1
                 THEN /\ heap'[q].resolved
                      /\ heap'[q].state = "pending"
                      /\ jobs' = <<ThenableJob(q, PRef(p))>>
                 ELSE /\ heap'[q].state = "rejected"
                      /\ heap'[q].value = TimeoutException
            /\ heap[q].state = "rejected" =>
                 heap'[q].state = "rejected" /\ heap'[q].value = heap[q].value
            /\ (heap[q].resolved /\ heap[q].state = "pending") =>
                 heap'[q].state # "rejected"

\* What holds of a timeout in every state: success is set only when the
\* source is fulfilled; q is untouched until the timer fires and settled once
\* the timer has fired and the jobs have run: fulfilled with the value the
\* source is fulfilled with, or rejected with the timeout error.
C6_Inv ==
    \A i \in CallsOf("timeout") :
        LET p == log[i].id
            q == log[i].n
            success == log[i].w.n
        IN  /\ cells[success] = 1 => heap[p].state = "fulfilled"
            /\ TimeoutPending(timers, q) => ~heap[q].resolved
            /\ (~TimeoutPending(timers, q) /\ jobs = <<>>) => Settled(q)
            /\ heap[q].state = "fulfilled" => Fulfilled(p, heap[q].value)
            /\ heap[q].state = "rejected" => heap[q].value = TimeoutException

\* C6: when the timer of timeout(ms) fires, the returned promise settles as
\* success if the source's success was observed before, and as failure with
\* the timeout error otherwise; a source that succeeds later does not change
\* the failure.
C6_TimeoutAtMark == [][C6_Step]_vars /\ []C6_Inv

\* C6's case: the timer fired first, and the source was fulfilled after it.
C6_Witness ==
    \E i \in CallsOf("timeout") :
        /\ Rejected(log[i].n, TimeoutException)
        /\ heap[log[i].id].state = "fulfilled"

\* The kinds of onFinally whose own failure is what finally fails with.
FinallyOutcome(i, overriding) ==
    LET p == log[i].id
        q == log[i].n
        f == log[i].r
    IN  /\ cells[f.a] <= 1
        /\ Settled(q) => cells[f.a] = 1 /\ Settled(p)
        /\ (Settled(q) /\ f.fn \in {"later", "laterRejected"}) =>
               \E j \in 1..Len(log) :
                   /\ log[j].ev \in {"resolveFunction", "rejectFunction"}
                   /\ log[j].id # p
        /\ (Settled(p) /\ jobs = <<>> /\ timers = <<>>) => Settled(q)
        /\ Settled(q) =>
               IF f.fn \in overriding
               THEN Rejected(q, f.v)
               ELSE heap[q].state = heap[p].state /\ heap[q].value = heap[p].value

\* C7 as claimed: finally(fn) invokes fn once when the source settles, and
\* the returned promise settles as the source did, with the source's value,
\* whatever fn returns, a promise included; only when fn throws does it fail
\* with what fn threw.
C7_FinallyWhateverReturned ==
    \A i \in CallsOf("finally") : FinallyOutcome(i, {"throw"})

\* C7 as amended: finally(fn) invokes fn once when the source settles; when
\* fn throws, or returns a promise that fails, the returned promise fails
\* with what fn threw or with that promise's failure; otherwise it settles as
\* the source did, with the source's value, after the promise fn returned, if
\* any, has succeeded.
C7_FinallyKeepsOutcome ==
    \A i \in CallsOf("finally") :
        FinallyOutcome(i, {"throw", "rejected", "laterRejected"})

\* C7's case: the source failed, fn returned a promise fulfilled by a timer,
\* and the returned promise then failed with the source's failure.
C7_Witness ==
    \E i \in CallsOf("finally") :
        /\ log[i].r.fn = "later"
        /\ cells[log[i].r.a] = 1
        /\ heap[log[i].id].state = "rejected"
        /\ Rejected(log[i].n, heap[log[i].id].value)

\* C9: test(tester) calls tester once, as tester(v, true) for a source
\* fulfilled with v and as tester(v, false) for a source rejected with v; the
\* returned promise is fulfilled with v when tester returned true and
\* rejected with v when it returned false.
C9_TestDecides ==
    \A i \in CallsOf("test") :
        LET p == log[i].id
            q == log[i].n
            t == log[i].r
            calls == EventsOf("predicate", t.a)
        IN  t # NoFn =>
                /\ q # p
                /\ Cardinality(calls) = cells[t.a]
                /\ cells[t.a] <= 1
                /\ \A c \in calls :
                       /\ Settled(p)
                       /\ log[c].v = heap[p].value
                       /\ log[c].w = Bool(heap[p].state = "fulfilled")
                       /\ jobs = <<>> =>
                              IF log[c].r = Bool(TRUE)
                              THEN Fulfilled(q, heap[p].value)
                              ELSE Rejected(q, heap[p].value)
                /\ (Settled(p) /\ jobs = <<>>) => cells[t.a] = 1
                /\ Settled(q) =>
                       \E c \in calls :
                           /\ heap[q].value = log[c].v
                           /\ log[c].r = Bool(heap[q].state = "fulfilled")

\* C9's case: the source was fulfilled with v, tester(v, true) returned
\* false, and the returned promise is rejected with v.
C9_Witness ==
    \E i \in CallsOf("test") :
        /\ log[i].r # NoFn
        /\ heap[log[i].id].state = "fulfilled"
        /\ \E c \in EventsOf("predicate", log[i].r.a) : log[c].r = Bool(FALSE)
        /\ Rejected(log[i].n, heap[log[i].id].value)

\* C10: contains(value, bipredicate): for a source fulfilled with x the
\* returned promise is fulfilled with what bipredicate(x, value) returned,
\* and with x === value when no bipredicate is given; for a source rejected
\* with e it is rejected with e and bipredicate is never called.
C10_Contains ==
    \A i \in CallsOf("contains") :
        LET p == log[i].id
            q == log[i].n
            value == log[i].v
            f == log[i].r
            calls == EventsOf("predicate", f.a)
        IN  /\ Settled(q) => Settled(p)
            /\ (Settled(p) /\ jobs = <<>>) => Settled(q)
            /\ heap[p].state = "rejected" =>
                   /\ f # NoFn => cells[f.a] = 0
                   /\ Settled(q) => Rejected(q, heap[p].value)
            /\ heap[q].state = "rejected" => heap[p].state = "rejected"
            /\ (heap[q].state = "fulfilled" /\ f = NoFn) =>
                   heap[q].value = Bool(heap[p].value = value)
            /\ f # NoFn =>
                   /\ Cardinality(calls) = cells[f.a]
                   /\ cells[f.a] <= 1
                   /\ \A c \in calls :
                          /\ log[c].v = heap[p].value
                          /\ log[c].w = value
                          /\ jobs = <<>> => Fulfilled(q, log[c].r)
                   /\ heap[q].state = "fulfilled" => cells[f.a] = 1

\* C10's case: the source failed, and contains with a bipredicate returned a
\* promise that failed with the same value without calling the bipredicate.
C10_Witness ==
    \E i \in CallsOf("contains") :
        /\ log[i].r # NoFn
        /\ heap[log[i].id].state = "rejected"
        /\ Rejected(log[i].n, heap[log[i].id].value)
        /\ cells[log[i].r.a] = 0

(***************************************************************************)
(* The caller's calls of Promise.compare and Promise.equals.  A run makes  *)
(* two operand promises and compares them once.                            *)
(***************************************************************************)
Compared == \E i \in 1..Len(log) : log[i].ev = "compare"

BeginTaskCompare ==
    /\ ~running
    /\ jobs = <<>>
    /\ Cardinality(Sources) = 2
    /\ ~Compared
    /\ running' = TRUE
    /\ UNCHANGED state

\* Promise.resolve(v), an operand
CallOperandResolve ==
    /\ running
    /\ Cardinality(Sources) < 2
    /\ \E v \in Vals :
           LET r == PromiseResolve(M, v)
           IN  Commit(Logged(r, Event("source", r.ret.n, 0, v, Undefined, Undefined)))

\* Promise.reject(v), an operand
CallOperandReject ==
    /\ running
    /\ Cardinality(Sources) < 2
    /\ \E v \in Vals :
           LET r == PromiseReject(M, v)
           IN  Commit(Logged(r, Event("source", r.ret.n, 0, v, Undefined, Undefined)))

\* Promise.delayedResolve(v, amount), an operand
CallOperandDelayedResolve ==
    /\ running
    /\ Cardinality(Sources) < 2
    /\ \E v \in Vals, amount \in Delays :
           LET r == Promise_delayedResolve(M, v, amount)
           IN  Commit(Logged(r, Event("source", r.ret.n, amount, v, Undefined,
                                      Undefined)))

\* Promise.delayedReject(v, amount), an operand
CallOperandDelayedReject ==
    /\ running
    /\ Cardinality(Sources) < 2
    /\ \E v \in Vals, amount \in Delays :
           LET r == Promise_delayedReject(M, v, amount)
           IN  Commit(Logged(r, Event("source", r.ret.n, amount, v, Undefined,
                                      Undefined)))

\* Promise.compare(a, b, comparator), comparator a CompareTester of the caller
CallCompare ==
    /\ running
    /\ ~Compared
    /\ \E i, j \in Sources :
           /\ i # j
           /\ LET m1 == NewCell(M)
                  fn == Clo("comparator", LastCell(m1), 0, NoFn, Undefined)
                  r == Promise_compare(m1, log[i].id, log[j].id, fn)
              IN  Commit(Logged(r, Event("compare", log[i].id, r.ret.n,
                                         PRef(log[j].id), Undefined, fn)))

\* Promise.equals(a, b)
CallEquals ==
    /\ running
    /\ ~Compared
    /\ \E i, j \in Sources :
           /\ i # j
           /\ LET r == Promise_equals(M, log[i].id, log[j].id)
              IN  Commit(Logged(r, Event("compare", log[i].id, r.ret.n,
                                         PRef(log[j].id), Undefined, NoFn)))

NextCompare ==
    \/ CallOperandResolve
    \/ CallOperandReject
    \/ CallOperandDelayedResolve
    \/ CallOperandDelayedReject
    \/ CallCompare
    \/ CallEquals
    \/ EndTask
    \/ BeginTaskCompare
    \/ RunMicrotask
    \/ FireTimer

SpecCompare == Init /\ [][NextCompare]_vars

(***************************************************************************)
(* Properties of compare and equals.                                       *)
(***************************************************************************)
\* C11: compare(a, b, comparator): the comparator is called at most once,
\* only when a and b are both fulfilled, as comparator(value of a, value of
\* b), and the returned promise is fulfilled with what it returned; when a or
\* b is rejected the comparator is never called and the returned promise is
\* rejected with the failure of a or of b.  equals(a, b) fulfils the returned
\* promise with (value of a) === (value of b).
C11_CompareInArgumentOrder ==
    \A i \in CallsOf("compare") :
        LET a == log[i].id
            b == log[i].v.n
            q == log[i].n
            f == log[i].r
            calls == IF f = NoFn THEN {} ELSE EventsOf("predicate", f.a)
            failures == {heap[p].value : p \in {x \in {a, b} : heap[x].state = "rejected"}}
        IN  /\ f # NoFn => Cardinality(calls) = cells[f.a] /\ cells[f.a] <= 1
            /\ \A c \in calls :
                   /\ Fulfilled(a, log[c].v)
                   /\ Fulfilled(b, log[c].w)
                   /\ jobs = <<>> => Fulfilled(q, log[c].r)
            /\ heap[q].state = "fulfilled" =>
                   /\ heap[a].state = "fulfilled"
                   /\ heap[b].state = "fulfilled"
                   /\ f # NoFn => \E c \in calls : heap[q].value = log[c].r
                   /\ f = NoFn => heap[q].value = Bool(heap[a].value = heap[b].value)
            /\ (heap[a].state = "fulfilled" /\ heap[b].state = "fulfilled"
                  /\ jobs = <<>>) => heap[q].state = "fulfilled"
            /\ failures # {} =>
                   /\ calls = {}
                   /\ heap[q].state # "fulfilled"
                   /\ jobs = <<>> => heap[q].state = "rejected"
            /\ heap[q].state = "rejected" => heap[q].value \in failures

\* C11's case: b was fulfilled by its timer before a was by its own, with
\* another value, and the comparator was called and the result delivered.
C11_Witness ==
    \E i \in CallsOf("compare") :
        LET a == log[i].id
            b == log[i].v.n
        IN  /\ log[i].r # NoFn
            /\ cells[log[i].r.a] = 1
            /\ heap[a].state = "fulfilled"
            /\ heap[b].state = "fulfilled"
            /\ heap[a].value # heap[b].value
            /\ heap[log[i].n].state = "fulfilled"
            /\ \E s, t \in CallsOf("resolveFunction") :
                   s < t /\ log[s].id = b /\ log[t].id = a

(***************************************************************************)
(* The caller's calls of DeferredPromise.delay.  A run follows one         *)
(* DeferredPromise, the DeferredPromise its delay returns, and the         *)
(* attachments to both.                                                    *)
(***************************************************************************)
\* Producers of the caller that settle by a timer of their own.
LaterProducers(cell) ==
    {Clo("producer_later", cell, 1, NoFn, Num(1)),
     Clo("producer_later_reject", cell, 1, NoFn, Err(0))}

\* new DeferredPromise(fn), fn a Producer that settles by a timer
CallNewDeferredLater ==
    /\ running
    /\ defs = <<>>
    /\ \E fn \in LaterProducers(Len(cells) + 1) :
           Commit(DeferredPromise_constructor(NewCell(M), fn))

\* d.delay(amount)
CallDelay ==
    /\ running
    /\ Len(defs) = 1
    /\ \E amount \in Delays :
           LET r == DeferredPromise_delay(M, 1, amount)
           IN  Commit(Logged(r, Event("delay", 1, r.ret.n, Num(amount), Undefined,
                                      Undefined)))

NextDelay ==
    \/ CallNewDeferred
    \/ CallNewDeferredLater
    \/ CallDelay
    \/ CallThenDeferred
    \/ CallCatchDeferred
    \/ CallToPromiseDeferred
    \/ EndTask
    \/ BeginTaskDeferred
    \/ RunMicrotask
    \/ FireTimer

SpecDelay == Init /\ [][NextDelay]_vars

(***************************************************************************)
(* Properties of DeferredPromise.delay.                                    *)
(***************************************************************************)
\* The invocations of Producer s so far, up to place r of the log.
InvocationNo(s, r) == Cardinality({x \in EventsOf("producer", s.a) : x <= r})

\* What promise p shows of invocation number j of Producer s.
SettledAsProduced(s, j, p) ==
    CASE s.fn = "producer" ->
           IF j <= s.b THEN Rejected(p, Err(j)) ELSE Fulfilled(p, s.v)
      [] s.fn = "producer_later" ->
           IF \E t \in CallsOf("resolveFunction") : log[t].id = p
           THEN Fulfilled(p, s.v) ELSE ~heap[p].resolved
      [] s.fn = "producer_later_reject" ->
           IF \E t \in CallsOf("rejectFunction") : log[t].id = p
           THEN Rejected(p, s.v) ELSE ~heap[p].resolved
      [] OTHER -> TRUE

\* C12: d.delay(ms) makes a new DeferredPromise and invokes nothing.  Each
\* attachment to it starts one timer of ms; until that timer fires the
\* Producer of d is not invoked for that attachment and the attachment's
\* promise is untouched; when it fires, ms after the attachment, the Producer
\* is invoked exactly once, on the attachment's promise, which settles as the
\* Producer settles it.
C12_DelayStartsProduction ==
    \A i \in CallsOf("delay") :
        LET d == log[i].id
            d2 == log[i].n
            amount == log[i].v.n
            s == defs[d].supplier
            s2 == defs[d2].supplier
            starts == EventsOf("delay_supplier", s2.a)
            expired == {t \in CallsOf("delay_callback") :
                           \E st \in starts : log[st].n = log[t].id}
        IN  /\ d2 # d
            /\ defs[d].supplier = s2.f
            /\ cells[s2.a] = CountEvents(AttachEvents, d2)
            /\ Cardinality(starts) = cells[s2.a]
            /\ cells[s.a] = CountEvents(AttachEvents, d) + Cardinality(expired)
            /\ \A e \in EventsOf("toPromise", d2) :
                   \E st \in starts : log[st].n = log[e].n
            /\ \A st \in starts :
                   LET p == log[st].n
                       fired == {t \in expired : log[t].id = p}
                       runs == {r \in EventsOf("producer", s.a) : log[r].n = p}
                   IN  /\ Cardinality(fired) <= 1
                       /\ fired = {} =>
                              /\ runs = {}
                              /\ ~heap[p].resolved
                              /\ \E k \in 1..Len(timers) :
                                     /\ timers[k].cb.fn = "delay_callback"
                                     /\ timers[k].cb.a = p
                                     /\ timers[k].due = log[st].v.n + amount
                       /\ \A t \in fired :
                              /\ log[t].n = log[st].v.n + amount
                              /\ Cardinality(runs) = 1
                              /\ \A r \in runs :
                                     /\ t < r
                                     /\ SettledAsProduced(s, InvocationNo(s, r), p)

\* C12's case: two attachments to d.delay(ms) with ms > 0, made at different
\* times; both timers fired and the Producer, which fails once, was invoked
\* once for each: the first promise is rejected and the second fulfilled.
C12_Witness ==
    \E i \in CallsOf("delay") :
        LET s == defs[log[i].id].supplier
            s2 == defs[log[i].n].supplier
        IN  /\ log[i].v.n > 0
            /\ s.fn = "producer"
            /\ s.b = 1
            /\ cells[s.a] = 2
            /\ \E a, b \in EventsOf("delay_supplier", s2.a) :
                   /\ log[a].v.n < log[b].v.n
                   /\ heap[log[a].n].state = "rejected"
                   /\ heap[log[b].n].state = "fulfilled"

\* The promises made for the attachments to DeferredPromise d.
AttachedPromises(d) ==
    LET s == defs[d].supplier
    IN  {log[i].n : i \in EventsOf(IF s.fn = "delay_supplier" THEN "delay_supplier"
                                   ELSE "producer", s.a)}

\* The Producer at the root of DeferredPromise d.
RootProducer(d) ==
    IF defs[d].supplier.fn = "delay_supplier" THEN defs[d].supplier.f
    ELSE defs[d].supplier

\* C18: what a Producer throws is never raised outside a promise, and the
\* promise of every attachment to d and to d.delay(ms) is rejected with it
\* once the jobs and the timers have run.
C18_ThrowSurfacesAsFailure ==
    /\ CallsOf("uncaught") = {}
    /\ \A d \in 1..Len(defs) :
           RootProducer(d).fn = "producer_throw" =>
               \A p \in AttachedPromises(d) :
                   (jobs = <<>> /\ timers = <<>>) => Rejected(p, RootProducer(d).v)

(***************************************************************************)
(* The caller's calls of Promise.prototype.delay on one source promise.    *)
(***************************************************************************)
BeginTaskPromiseDelay ==
    /\ ~running
    /\ jobs = <<>>
    /\ Sources # {}
    /\ Cardinality(CallsOf("pdelay")) < MaxCalls
    /\ running' = TRUE
    /\ UNCHANGED state

\* Time passes while the host is idle, up to the next timer.
AdvanceClock ==
    /\ ~running
    /\ jobs = <<>>
    /\ Sources # {}
    /\ now < MaxDelay
    /\ \A k \in 1..Len(timers) : timers[k].due > now
    /\ now' = now + 1
    /\ UNCHANGED <<heap, jobs, timers, cells, defs, pubs, log, running>>

\* p.delay(amount)
CallPromiseDelay ==
    /\ running
    /\ Cardinality(CallsOf("pdelay")) < MaxCalls
    /\ \E i \in Sources, amount \in Delays :
           LET r == Promise_prototype_delay(M, log[i].id, amount)
           IN  Commit(Logged(r, Event("pdelay", log[i].id, r.ret.n, Num(amount),
                                      Num(now), Num(Len(cells) + 1))))

NextPromiseDelay ==
    \/ CallPromiseResolve
    \/ CallPromiseReject
    \/ CallDelayedResolve
    \/ CallDelayedReject
    \/ CallPromiseDelay
    \/ EndTask
    \/ BeginTaskPromiseDelay
    \/ AdvanceClock
    \/ RunMicrotask
    \/ FireTimer

SpecPromiseDelay == Init /\ [][NextPromiseDelay]_vars

(***************************************************************************)
(* Properties of Promise.prototype.delay.                                  *)
(***************************************************************************)
\* The timer callbacks that settled, or tried to settle, promise p.
TimerSettlements(p) ==
    {e \in CallsOf("resolveFunction") \cup CallsOf("rejectFunction") : log[e].id = p}

\* C13: q = p.delay(ms) is untouched until p has settled; one of the two
\* reactions of delay then starts a timer of ms, at the settlement of p when
\* delay was called before it and at the call otherwise; q stays pending
\* until that timer fires, and then settles in the state and with the value
\* of p.  The timer that settles p itself fires when it was due.
C13_DelayPropagation ==
    \A i \in CallsOf("pdelay") :
        LET p == log[i].id
            q == log[i].n
            amount == log[i].v.n
            c == log[i].r.n
            reacts == EventsOf("delay_reaction", c)
            src == CHOOSE j \in Sources : log[j].id = p
        IN  /\ Cardinality(reacts) = cells[c]
            /\ cells[c] <= 1
            /\ \A e \in TimerSettlements(p) : log[e].n = log[src].n
            /\ reacts = {} => ~heap[q].resolved
            /\ (heap[p].state # "pending" /\ jobs = <<>>) => cells[c] = 1
            /\ heap[q].state # "pending" =>
                   /\ heap[q].state = heap[p].state
                   /\ heap[q].value = heap[p].value
                   /\ \E r \in reacts : TimerSettlements(log[r].n) # {}
            /\ \A r \in reacts :
                   LET inner == log[r].n
                       started == log[r].w.n
                       fired == TimerSettlements(inner)
                   IN  /\ heap[p].state # "pending"
                       /\ log[r].v = heap[p].value
                       /\ log[r].r = Bool(heap[p].state = "fulfilled")
                       /\ \A e \in TimerSettlements(p) : i < e => started = log[e].n
                       /\ (\A e \in TimerSettlements(p) : e < i) => started = log[i].w.n
                       /\ Cardinality(fired) <= 1
                       /\ fired = {} =>
                              /\ heap[q].state = "pending"
                              /\ \E k \in 1..Len(timers) :
                                     /\ timers[k].cb.a = inner
                                     /\ timers[k].due = started + amount
                       /\ \A f \in fired :
                              /\ log[f].n = started + amount
                              /\ jobs = <<>> =>
                                     /\ heap[q].state = heap[p].state
                                     /\ heap[q].value = heap[p].value

\* C13's case: delay(ms), ms > 0, called on a pending source that its timer
\* then rejected: the returned promise is rejected with the same value, by a
\* timer that fired ms after the source's.
C13_Witness ==
    \E i \in CallsOf("pdelay") :
        LET p == log[i].id
            q == log[i].n
        IN  /\ log[i].v.n > 0
            /\ heap[p].state = "rejected"
            /\ Rejected(q, heap[p].value)
            /\ \E e \in TimerSettlements(p), r \in EventsOf("delay_reaction", log[i].r.n) :
                   /\ i < e
                   /\ log[e].n > 0
                   /\ \E f \in TimerSettlements(log[r].n) : log[f].n = log[e].n + log[i].v.n

(***************************************************************************)
(* The caller's calls of Promise.prototype.defer on one source promise.    *)
(***************************************************************************)
BeginTaskDefer ==
    /\ ~running
    /\ jobs = <<>>
    /\ Sources # {}
    /\ Cardinality(CallsOf("defer")) < MaxCalls
    /\ running' = TRUE
    /\ UNCHANGED state

\* p.defer()
CallDefer ==
    /\ running
    /\ Cardinality(CallsOf("defer")) < MaxCalls
    /\ \E i \in Sources :
           LET r == Promise_prototype_defer(M, log[i].id)
           IN  Commit(Logged(r, Event("defer", log[i].id, r.ret.n, Undefined,
                                      Undefined, Undefined)))

NextDefer ==
    \/ CallPromiseResolve
    \/ CallPromiseReject
    \/ CallDelayedResolve
    \/ CallDelayedReject
    \/ CallDefer
    \/ EndTask
    \/ BeginTaskDefer
    \/ RunMicrotask
    \/ FireTimer

SpecDefer == Init /\ [][NextDefer]_vars

(***************************************************************************)
(* Properties of Promise.prototype.defer.                                  *)
(***************************************************************************)
\* C14: p.defer() returns a promise that, for p fulfilled with x and for p
\* rejected with x alike, is fulfilled with a DeferredPromise: one whose
\* supplier resolves with x when p was fulfilled and rejects with x when p
\* was rejected.
C14_DeferYieldsDeferred ==
    \A i \in CallsOf("defer") :
        LET p == log[i].id
            q == log[i].n
        IN  /\ (heap[p].state # "pending" /\ jobs = <<>>) => heap[q].state = "fulfilled"
            /\ heap[q].state # "pending" =>
                   /\ heap[q].state = "fulfilled"
                   /\ heap[q].value.k = "deferred"
                   /\ defs[heap[q].value.n].supplier.fn =
                          (IF heap[p].state = "fulfilled" THEN "res_value" ELSE "rej_value")
                   /\ defs[heap[q].value.n].supplier.v = heap[p].value

(***************************************************************************)
(* More properties of timeout.                                             *)
(***************************************************************************)
\* C15: the promise q that p.timeout(ms) returns is pending as long as the
\* timer is pending, the timer is due ms after the call and fires then, and
\* q is settled once the timer has fired and the jobs have run.  When p is
\* rejected, success is never set: q stays pending up to the timer and is
\* then rejected with the timeout error, not with the failure of p.
C15_TimeoutNoEarlyExit ==
    \A i \in CallsOf("timeout") :
        LET p == log[i].id
            q == log[i].n
            amount == log[i].v.n
            success == log[i].w.n
            called == log[i].r.n
            fired == {e \in EventsOf("timeout_callback", success) : e > i}
        IN  /\ TimeoutPending(timers, q) <=> fired = {}
            /\ fired = {} =>
                   /\ heap[q].state = "pending"
                   /\ \A k \in 1..Len(timers) :
                          (timers[k].cb.fn = "timeout_callback" /\ timers[k].cb.b = q)
                              => timers[k].due = called + amount
            /\ \A e \in fired :
                   /\ log[e].n = called + amount
                   /\ jobs = <<>> => heap[q].state # "pending"
            /\ heap[p].state = "rejected" =>
                   /\ cells[success] = 0
                   /\ heap[q].state # "fulfilled"
                   /\ fired # {} =>
                          /\ Rejected(q, TimeoutException)
                          /\ heap[q].value # heap[p].value

\* C15's case: the source was rejected by its timer before the mark of a
\* timeout called earlier; the returned promise was rejected with the timeout
\* error when the mark came.
C15_Witness ==
    \E i \in CallsOf("timeout"), e \in CallsOf("rejectFunction") :
        /\ i < e
        /\ log[e].id = log[i].id
        /\ log[e].n < log[i].r.n + log[i].v.n
        /\ heap[log[i].id].state = "rejected"
        /\ Rejected(log[i].n, TimeoutException)

\* The promises the caller holds: the sources it made and the promises the
\* extensions returned to it.
CallerPromises ==
    {log[i].id : i \in Sources}
        \cup {log[i].n : i \in {j \in 1..Len(log) : log[j].ev \in CallEvents}}

\* C19: once the jobs have run, every rejected promise that the caller does
\* not hold has a reaction attached (is handled): no failure is left on a
\* promise nobody can observe.
C19_NoUnhandledInternalFailure ==
    jobs = <<>> =>
        \A p \in 1..Len(heap) :
            (heap[p].state = "rejected" /\ p \notin CallerPromises) => heap[p].handled

(***************************************************************************)
(* More properties of retry.                                               *)
(***************************************************************************)
\* The retry() calls without a tester.
PlainRetries == {i \in CallsOf("retry") : log[i].v = Undefined}

\* Whether Producer s fails on every invocation.
AlwaysFails(s) == s.fn \in {"producer_throw", "rej_value"}

\* The jobs that will start the next attempt of a retry() on d.
RetryJobs(d) ==
    {k \in 1..Len(jobs) : /\ jobs[k].type = "reaction"
                          /\ jobs[k].handler.fn = "retry_onRejected"
                          /\ jobs[k].handler.b = d}

\* No retry() promise is ever rejected.  For the one retry() on a
\* DeferredPromise whose Producer always fails, the promise is pending and
\* the job that starts the next attempt is in the queue, after as many
\* attempts as there were failures.
C16_Inv ==
    /\ \A i \in PlainRetries : heap[log[i].n].state # "rejected"
    /\ \A i \in PlainRetries \cap SoleRetries :
           LET d == log[i].id
               s == defs[d].supplier
           IN  AlwaysFails(s) =>
                   /\ heap[log[i].n].state = "pending"
                   /\ Cardinality(RetryJobs(d)) = 1
                   /\ cells[s.a] >= 1
                   /\ \A e \in EventsOf("producer", s.a) :
                          Rejected(log[e].n, FailureOf(s, 1))

\* A step of that retry(): the Producer is invoked by the job that reacts to
\* a failure and by nothing else, once per job.
C16_Step ==
    \A i \in PlainRetries \cap SoleRetries :
        LET d == log[i].id
            s == defs[d].supplier
        IN  (AlwaysFails(s) /\ Retries' = Retries) =>
                /\ cells'[s.a] # cells[s.a] =>
                       /\ jobs[1].handler.fn = "retry_onRejected"
                       /\ cells'[s.a] = cells[s.a] + 1
                /\ (jobs' # jobs /\ 1 \in RetryJobs(d)) =>
                       cells'[s.a] = cells[s.a] + 1

\* C16: retry() without a tester never returns a promise that fails.  With a
\* Producer that fails every time, by rejecting or by throwing, the promise
\* stays pending and every failure starts exactly one new attempt, without
\* end.
C16_RetryNeverFails == [][C16_Step]_vars /\ []C16_Inv

\* C16's case: a Producer that throws was invoked three times by retry(),
\* whose promise is still pending.
C16_Witness ==
    \E i \in PlainRetries \cap SoleRetries :
        LET s == defs[log[i].id].supplier
        IN  /\ s.fn = "producer_throw"
            /\ cells[s.a] >= 3
            /\ heap[log[i].n].state = "pending"

\* The places in the log of the attempts that retry call i started: the one
\* made by the call, and one after each call of its tester that returned
\* true.
OwnAttempts(i) ==
    {i - 1} \cup {c + 1 : c \in {e \in EventsOf("predicate", log[i].v.n) :
                                    log[e].r = Bool(TRUE)}}

\* The k-th of a set of places of the log.
Nth(S, k) == CHOOSE x \in S : Cardinality({y \in S : y <= x}) = k

\* Every retry(fn) call counts for itself: the k-th call of its tester gets
\* the count k and the failure of the k-th attempt that this call started,
\* whatever other retry calls on the same DeferredPromise do.
C17_Inv ==
    \A i \in CallsOf("retry") :
        LET d == log[i].id
            s == defs[d].supplier
            t == log[i].v.n
            calls == EventsOf("predicate", t)
        IN  log[i].v # Undefined =>
                /\ Cardinality(calls) = cells[t]
                /\ \A j \in CallsOf("retry") :
                       (j # i /\ log[j].v # Undefined) => log[j].v.n # t
                /\ \A a \in OwnAttempts(i) :
                       log[a].ev = "producer" /\ log[a].id = s.a
                /\ \A c \in calls :
                       LET k == log[c].n
                           a == Nth(OwnAttempts(i), k)
                       IN  /\ log[c].v = Num(k)
                           /\ k <= Cardinality(OwnAttempts(i))
                           /\ a < c
                           /\ log[c].w = FailureOf(s, InvocationNo(s, a))

\* C17: the counter of retry(fn) belongs to the call: retry calls on one
\* DeferredPromise, interleaved or one after the other, each count their own
\* failures from 1, and no step changes a DeferredPromise once made.
C17_RetryCounterPrivate ==
    [][\A d \in 1..Len(defs) : defs'[d] = defs[d]]_vars /\ []C17_Inv

\* C17's case: two retry(fn) calls on one DeferredPromise, both made before
\* any failure was handled; the tester of the second was called with count 1
\* after the tester of the first was called with count 1, for another
\* failure.
C17_Witness ==
    \E i, j \in CallsOf("retry") :
        /\ i < j
        /\ log[i].id = log[j].id
        /\ log[i].v # Undefined
        /\ log[j].v # Undefined
        /\ \E a \in EventsOf("predicate", log[i].v.n),
              b \in EventsOf("predicate", log[j].v.n) :
               /\ j < a
               /\ a < b
               /\ log[a].v = Num(1)
               /\ log[b].v = Num(1)
               /\ log[a].w # log[b].w

(***************************************************************************)
(* More properties of PublishedPromise.                                    *)
(***************************************************************************)
\* The then and catch calls on pub.
Attached(pub) == EventsOf("then", pub) \cup EventsOf("catch", pub)

\* The cells of the continuations given to attachment i.
OnResolveOf(i) == IF log[i].ev = "then" THEN {log[i].v.n} ELSE {}
OnRejectOf(i) == {log[i].w.n}

\* Delivery to the continuations attached to a PublishedPromise: none is
\* called before the first settlement attempt; after it, those of the
\* matching kind are called once each, with its value, after both the
\* attachment and the attempt, and the others never.
C20_Inv ==
    \A pub \in 1..Len(pubs) :
        pubs[pub].promise # 0 =>
            LET calls == AttemptsOn(pub)
                first == FirstOf(calls)
            IN  \A i \in Attached(pub) :
                    LET matching == IF calls = {} THEN {}
                                    ELSE IF AttemptState(pub, first) = "fulfilled"
                                         THEN OnResolveOf(i) ELSE OnRejectOf(i)
                    IN  /\ \A c \in (OnResolveOf(i) \cup OnRejectOf(i)) \ matching :
                               cells[c] = 0
                        /\ \A c \in matching :
                               LET runs == EventsOf("onResolve", c) \cup EventsOf("onReject", c)
                               IN  /\ cells[c] <= 1
                                   /\ Cardinality(runs) = cells[c]
                                   /\ jobs = <<>> => cells[c] = 1
                                   /\ \A j \in runs :
                                          /\ i < j
                                          /\ first < j
                                          /\ log[j].v = AttemptValue(pub, first)

\* No continuation is called while the caller's synchronous code, which
\* attaches and settles, is on the stack.
C20_Step ==
    \A pub \in 1..Len(pubs) :
        \A i \in Attached(pub) :
            \A c \in OnResolveOf(i) \cup OnRejectOf(i) :
                cells'[c] # cells[c] => ~running

\* C20: whatever the order of the then and catch calls and the first
\* resolve(v) or reject(v) on a PublishedPromise, every continuation of the
\* matching kind is called exactly once with v, attached before or after the
\* settlement, and only after the synchronous code that settled or attached
\* has returned.
C20_DeliveryWhateverOrder == [][C20_Step]_vars /\ []C20_Inv

\* C20's case: a then attached before reject(v) and a catch attached after
\* it; both onReject were called once.
C20_Witness ==
    \E pub \in 1..Len(pubs) :
        \E t \in EventsOf("then", pub), c \in EventsOf("catch", pub), f \in AttemptsOn(pub) :
            /\ f = FirstOf(AttemptsOn(pub))
            /\ log[f].ev = "reject"
            /\ t < f
            /\ f < c
            /\ cells[log[t].w.n] = 1
            /\ cells[log[c].w.n] = 1

====
